---- MODULE Spec2Model ----
(***************************************************************************)
(* MeComPyAPI: the MeCom frame codec (mecom_frame.py), the hex field       *)
(* conversions (mecom_var_convert.py) and the query/set transaction layer  *)
(* (mecom_query_set.py), as a state machine.                               *)
(*                                                                         *)
(* Strings are sequences of one-character strings, so that slicing,        *)
(* formatting and the CRC are computed character by character as the       *)
(* Python code computes them.                                              *)
(***************************************************************************)
EXTENDS Integers, Sequences, FiniteSets, TLC

(***************************************************************************)
(* Bounds of the model.                                                    *)
(***************************************************************************)
\* number of query/set calls in one behaviour
MaxTransactions == 2

(***************************************************************************)
(* Program constants.                                                      *)
(***************************************************************************)
\* trials_left: int = 3
TRIALS == 3
\* if tx_frame.address == 255: no answer is expected
BROADCAST == 255
\* self.default_device_address: int = 1
DEFAULT_ADDRESS == 1
\* MeComPacket.__init__(..., address: int = 1)
PACKET_DEFAULT_ADDRESS == 1
\* if len(rx_stream) == 11: ACK received
ACK_LENGTH == 11
\* random.randrange(0, 65_535, 1): upper limit (exclusive) of the initial value
RANDRANGE_STOP == 65535
\* the address None of a packet ("use the default device address")
NONE == -1

(***************************************************************************)
(* Characters.                                                             *)
(***************************************************************************)
HexChars == <<"0", "1", "2", "3", "4", "5", "6", "7",
              "8", "9", "A", "B", "C", "D", "E", "F">>

HexCharSet == {HexChars[i] : i \in 1..16}

\* CONVERT_TO_HEX_DICT
CONVERT_TO_HEX_DICT == [v \in 0..15 |-> HexChars[v + 1]]

\* CONVERT_TO_DEC_DICT
CONVERT_TO_DEC_DICT == [c \in HexCharSet |-> CHOOSE v \in 0..15 : HexChars[v + 1] = c]

\* str.encode(): the ASCII code of every character the model puts in a frame
Ord ==
    [c \in HexCharSet |-> IF CONVERT_TO_DEC_DICT[c] < 10
                             THEN 48 + CONVERT_TO_DEC_DICT[c]
                             ELSE 55 + CONVERT_TO_DEC_DICT[c]]
    @@ ("!" :> 33) @@ ("#" :> 35) @@ ("+" :> 43) @@ ("?" :> 63)
    @@ ("I" :> 73) @@ ("L" :> 76) @@ ("R" :> 82) @@ ("S" :> 83)
    @@ ("T" :> 84) @@ ("V" :> 86)

\* Python slice s[i:j] for 0 <= i, j <= len(s) (0-based, j exclusive)
Slice(s, i, j) == IF j <= i THEN <<>> ELSE SubSeq(s, i + 1, j)

(***************************************************************************)
(* Bit operations on naturals.                                             *)
(***************************************************************************)
RECURSIVE Xor(_, _)
\* a ^ b
Xor(a, b) ==
    IF a = 0 THEN b
    ELSE IF b = 0 THEN a
    ELSE ((a + b) % 2) + 2 * Xor(a \div 2, b \div 2)

(***************************************************************************)
(* MeComVarConvert                                                         *)
(***************************************************************************)
RECURSIVE HexDigits(_)
\* the digits of "{:X}".format(value), value >= 0
HexDigits(value) ==
    IF value < 16 THEN <<CONVERT_TO_HEX_DICT[value]>>
    ELSE Append(HexDigits(value \div 16), CONVERT_TO_HEX_DICT[value % 16])

RECURSIVE ZeroFill(_, _)
ZeroFill(digits, width) ==
    IF Len(digits) >= width THEN digits ELSE ZeroFill(<<"0">> \o digits, width)

\* "{:0<width>X}".format(value): a minimum width, never a truncation; a
\* negative value is written as "-" and the digits of its magnitude, the sign
\* counting in the width
FormatX(value, width) ==
    IF value < 0
    THEN <<"-">> \o ZeroFill(HexDigits(-value), width - 1)
    ELSE ZeroFill(HexDigits(value), width)

add_string(stream, value) == stream \o value

\* "{:01X}".format(value)
add_uint4(stream, value) == stream \o FormatX(value, 1)

add_uint8(stream, value) == stream \o FormatX(value, 2)

add_uint16(stream, value) == stream \o FormatX(value, 4)

add_uint32(stream, value) == stream \o FormatX(value, 8)

\* return self.add_uint32(stream=stream, value=value)
add_int32(stream, value) == add_uint32(stream, value)

RECURSIVE SpaceFill(_, _)
SpaceFill(digits, width) ==
    IF Len(digits) >= width THEN digits ELSE SpaceFill(<<" ">> \o digits, width)

\* "{:16X}".format(value): no fill character is given, so a number is right
\* aligned with spaces
add_uint64(stream, value) == stream \o SpaceFill(HexDigits(value), 16)

RECURSIVE HexValue(_)
\* int.from_bytes(bytes.fromhex(stream), "big")
HexValue(stream) ==
    IF stream = <<>> THEN 0
    ELSE 16 * HexValue(SubSeq(stream, 1, Len(stream) - 1))
         + CONVERT_TO_DEC_DICT[stream[Len(stream)]]

RECURSIVE FromHex(_)
\* bytes.fromhex(stream): white space before a byte is skipped, then two hex
\* digits make a byte; anything else is a ValueError. [ok, digits]
FromHex(stream) ==
    IF stream = <<>> THEN [ok |-> TRUE, digits |-> <<>>]
    ELSE IF Head(stream) = " " THEN FromHex(Tail(stream))
    ELSE IF Len(stream) < 2 \/ stream[1] \notin HexCharSet \/ stream[2] \notin HexCharSet
    THEN [ok |-> FALSE, digits |-> <<>>]
    ELSE LET rest == FromHex(SubSeq(stream, 3, Len(stream)))
         IN  [ok |-> rest.ok, digits |-> <<stream[1], stream[2]>> \o rest.digits]

\* bytes.fromhex(stream) succeeds and unpack() gets the nbytes bytes it needs
CanUnpack(stream, nbytes) ==
    /\ FromHex(stream).ok
    /\ Len(FromHex(stream).digits) = 2 * nbytes

\* the exception of unpack(rsp_format, bytes.fromhex(stream)), or "none"
UnpackException(stream, nbytes) ==
    IF ~FromHex(stream).ok THEN "ValueError"
    ELSE IF Len(FromHex(stream).digits) # 2 * nbytes THEN "struct.error"
    ELSE "none"

read_uint8(stream) == HexValue(FromHex(stream).digits)

\* the field read as a signed 16 bit number
read_uint16_signed(stream) ==
    IF HexValue(stream) >= 32768 THEN HexValue(stream) - 65536 ELSE HexValue(stream)

read_uint16(stream) == HexValue(FromHex(stream).digits)

read_uint32(stream) == HexValue(FromHex(stream).digits)

\* unpack("!i", bytes.fromhex(stream))[0]: the four bytes as a two's
\* complement number (2^31 is taken off in two steps to stay in 32 bits)
read_int32(stream) ==
    LET digits == FromHex(stream).digits
        high == CONVERT_TO_DEC_DICT[digits[1]]
    IN  IF high >= 8
        THEN (HexValue(<<CONVERT_TO_HEX_DICT[high - 8]>> \o Tail(digits))
                 - 2147483647) - 1
        ELSE HexValue(digits)

read_uint64(stream) == HexValue(FromHex(stream).digits)

\* add_byte_array(stream, value): add_uint8 for each byte of the bytearray
\* (a byte is in 0..255, so each one gives two characters)
add_byte_array(stream, value) ==
    stream \o SubSeq([i \in 1..(2 * Len(value)) |->
                         add_uint8(<<>>, value[(i + 1) \div 2])[2 - (i % 2)]],
                     1, 2 * Len(value))

\* int(stream) raises no ValueError (a stream without sign or white space)
IsDecimal(stream) ==
    /\ stream # <<>>
    /\ \A i \in 1..Len(stream) : stream[i] \in {HexChars[d] : d \in 1..10}

RECURSIVE DecimalOf(_)
\* int(stream)
DecimalOf(stream) ==
    IF stream = <<>> THEN 0
    ELSE 10 * DecimalOf(SubSeq(stream, 1, Len(stream) - 1))
         + CONVERT_TO_DEC_DICT[stream[Len(stream)]]

\* the exception of read_uint4(stream), or "none"
ReadUint4Exception(stream) ==
    IF ~IsDecimal(stream) THEN "ValueError"
    ELSE UnpackException(FormatX(DecimalOf(stream), 2), 1)

\* read_uint4(stream): stream_int = int(stream), then the byte of
\* "{:02X}".format(stream_int)
read_uint4(stream) == read_uint8(FormatX(DecimalOf(stream), 2))

(***************************************************************************)
(* MeComFrame                                                              *)
(***************************************************************************)
\* CRCCCITT(): the CRC-CCITT polynomial 0x1021 (version XModem, start value 0)
CRC_POLY == 4129
\* CRCCCITT(): the starting value of the default version
CRC_START == 0

RECURSIVE CrcShift(_, _)
\* n MSB-first shift steps of a 16 bit register
CrcShift(reg, n) ==
    IF n = 0 THEN reg
    ELSE CrcShift(IF reg >= 32768 THEN Xor((2 * reg) % 65536, CRC_POLY)
                                  ELSE (2 * reg) % 65536,
                  n - 1)

\* the 256-entry table CRCCCITT builds on construction
CrcTable == [i \in 0..255 |-> CrcShift(256 * i, 8)]

RECURSIVE CrcCalculate(_, _)
\* CRCCCITT.calculate: crc = ((crc << 8) & 0xff00) ^ table[((crc >> 8) & 0xff) ^ byte]
CrcCalculate(crc, frame) ==
    IF frame = <<>> THEN crc
    ELSE CrcCalculate(Xor((256 * crc) % 65536,
                          CrcTable[Xor((crc \div 256) % 256, Ord[Head(frame)])]),
                      Tail(frame))

_calc_crc_citt(frame) == CrcCalculate(CRC_START, frame)

\* ERcvType
ERcvType == {"EMPTY", "ACK", "DATA"}

\* MeComPacket(control, address)
MeComPacket(control, address) ==
    [control |-> control, address |-> address, sequence_number |-> 0,
     payload |-> <<>>, receive_type |-> "EMPTY"]

\* send_frame, lines 120-127: the stream the CRC is computed over
TxStreamBody(tx_frame) ==
    add_string(add_uint16(add_uint8(<<tx_frame.control>>, tx_frame.address),
                          tx_frame.sequence_number),
               tx_frame.payload)

\* send_frame, lines 129-134: the stream handed to phy_com.send_string (the
\* trailing "\r" is the terminator the transport strips and is left out)
TxStream(tx_frame) ==
    add_uint16(TxStreamBody(tx_frame), _calc_crc_citt(TxStreamBody(tx_frame)))

\* an ACK is accepted as one that never compares the CRC
AckCrcNotCompared(rcv_crc, lastCrc) == TRUE

\* if rcv_crc == self.last_crc: Valid ACK received
AckCrcMatches(rcv_crc, lastCrc) == rcv_crc = lastCrc

\* a data frame is accepted without comparing the CRC
DataCrcNotCompared(calc_crc, rcv_crc) == TRUE

\* if calc_crc == rcv_crc: the frame is taken, else WrongChecksumException
DataCrcMatches(calc_crc, rcv_crc) == calc_crc = rcv_crc

\* _decode_frame: [exc, frame]; exc is "none" or the exception raised
_decode_frame(rx_frame, rx_stream, lastCrc) ==
    IF Len(rx_stream) = ACK_LENGTH
    THEN \* ACK received
         IF ~CanUnpack(Slice(rx_stream, 7, 11), 2)
         THEN [exc |-> "ValueError", frame |-> rx_frame]
         ELSE IF AckCrcMatches(read_uint16(Slice(rx_stream, 7, 11)), lastCrc)
         THEN IF CanUnpack(Slice(rx_stream, 1, 3), 1) /\ CanUnpack(Slice(rx_stream, 3, 7), 2)
              THEN [exc |-> "none",
                    frame |-> [rx_frame EXCEPT
                                 !.address = read_uint8(Slice(rx_stream, 1, 3)),
                                 !.sequence_number = read_uint16(Slice(rx_stream, 3, 7)),
                                 !.receive_type = "ACK"]]
              ELSE [exc |-> "ValueError", frame |-> rx_frame]
         ELSE [exc |-> "none", frame |-> rx_frame]
    ELSE \* Data Frame received
         IF \/ Len(rx_stream) < 4
            \/ \E i \in (Len(rx_stream) - 3)..Len(rx_stream) : rx_stream[i] \notin HexCharSet
         THEN [exc |-> "ValueError", frame |-> rx_frame]
         ELSE IF DataCrcMatches(_calc_crc_citt(Slice(rx_stream, 0, Len(rx_stream) - 4)),
                                HexValue(Slice(rx_stream, Len(rx_stream) - 4, Len(rx_stream))))
         THEN IF CanUnpack(Slice(rx_stream, 1, 3), 1) /\ CanUnpack(Slice(rx_stream, 3, 7), 2)
              THEN [exc |-> "none",
                    frame |-> [rx_frame EXCEPT
                                 !.address = read_uint8(Slice(rx_stream, 1, 3)),
                                 !.sequence_number = read_uint16(Slice(rx_stream, 3, 7)),
                                 !.payload = Slice(rx_stream, 7, Len(rx_stream) - 4),
                                 !.receive_type = "DATA"]]
              ELSE [exc |-> "ValueError", frame |-> rx_frame]
         ELSE [exc |-> "WrongChecksumException", frame |-> rx_frame]

(***************************************************************************)
(* The transport (IntMeComPhy) and the device behind it.  The device       *)
(* answers the frame it received with a line of its own choice; the kinds  *)
(* of line are the inputs of the model.                                    *)
(***************************************************************************)
\* payloads of the callers in mecom_basic_cmd.py: "?IF" + channel, "RS"
QueryPayload == <<"?", "I", "F", "0", "1">>
SetPayload == <<"R", "S">>
\* a data answer, and a server error answer ("+" and an error code)
DataPayload == <<"0", "1">>
ServerErrorPayload == <<"+", "0", "5">>

\* the addresses a caller passes: None (the default address), a device, broadcast
Addresses == {NONE, 2, BROADCAST}

\* the thread that calls query/set: the creator of the MeComQuerySet or another
Threads == {"creator", "other"}

\* a device frame, fields of the wire width (u8 address, u16 sequence number)
DeviceBody(address, seq, payload) ==
    <<"!">> \o FormatX(address % 256, 2) \o FormatX(seq % 65536, 4) \o payload

\* the line get_data_or_timeout returns for each kind of device answer to the
\* request tx (sent as stream tx_stream, whose CRC is crc)
DeviceLine(kind, tx, crc) ==
    CASE kind = "ack" ->
           DeviceBody(tx.address, tx.sequence_number, <<>>) \o FormatX(crc, 4)
      [] kind = "ack_bad_crc" ->
           DeviceBody(tx.address, tx.sequence_number, <<>>) \o FormatX((crc + 1) % 65536, 4)
      [] kind = "data" ->
           add_uint16(DeviceBody(tx.address, tx.sequence_number, DataPayload),
                      _calc_crc_citt(DeviceBody(tx.address, tx.sequence_number, DataPayload)))
      [] kind = "data_old_seq" ->
           add_uint16(DeviceBody(tx.address, tx.sequence_number + 65535, DataPayload),
                      _calc_crc_citt(DeviceBody(tx.address, tx.sequence_number + 65535, DataPayload)))
      [] kind = "data_bad_crc" ->
           add_uint16(DeviceBody(tx.address, tx.sequence_number, DataPayload),
                      (_calc_crc_citt(DeviceBody(tx.address, tx.sequence_number, DataPayload)) + 1) % 65536)
      [] kind = "server_error" ->
           add_uint16(DeviceBody(tx.address, tx.sequence_number, ServerErrorPayload),
                      _calc_crc_citt(DeviceBody(tx.address, tx.sequence_number, ServerErrorPayload)))

LineKinds == {"ack", "ack_bad_crc", "data", "data_old_seq",
              "data_bad_crc", "server_error"}

(***************************************************************************)
(* Python integers of any size, as the lookup table code uses them: the    *)
(* base 256 digits, least significant first, without leading zero digits.  *)
(***************************************************************************)
RECURSIVE NumOf(_)
\* the number n >= 0
NumOf(n) == IF n = 0 THEN <<>> ELSE <<n % 256>> \o NumOf(n \div 256)

RECURSIVE Normalize(_)
Normalize(a) ==
    IF a = <<>> THEN a
    ELSE IF a[Len(a)] = 0 THEN Normalize(SubSeq(a, 1, Len(a) - 1))
    ELSE a

\* digit i (from 0) of a
Digit(a, i) == IF 0 <= i /\ i < Len(a) THEN a[i + 1] ELSE 0

RECURSIVE Or(_, _)
\* a | b
Or(a, b) ==
    IF a = 0 THEN b
    ELSE IF b = 0 THEN a
    ELSE (IF a % 2 = 1 \/ b % 2 = 1 THEN 1 ELSE 0) + 2 * Or(a \div 2, b \div 2)

Max(a, b) == IF a >= b THEN a ELSE b

\* the digits of a ^ b, digit by digit
XorDigits(a, b) ==
    SubSeq([i \in 1..Max(Len(a), Len(b)) |-> Xor(Digit(a, i - 1), Digit(b, i - 1))],
           1, Max(Len(a), Len(b)))

\* a ^ b
NumXor(a, b) == Normalize(XorDigits(a, b))

\* the digits of a | b, digit by digit
OrDigits(a, b) ==
    SubSeq([i \in 1..Max(Len(a), Len(b)) |-> Or(Digit(a, i - 1), Digit(b, i - 1))],
           1, Max(Len(a), Len(b)))

\* a | b
NumOr(a, b) == Normalize(OrDigits(a, b))

\* a << (8 * k)
NumShlBytes(a, k) ==
    IF a = <<>> THEN a ELSE SubSeq([i \in 1..k |-> 0], 1, k) \o a

\* the digits of a << 1 when carry comes in from the digit below: each digit
\* is doubled and takes the top bit of the digit below it
ShiftDigits(a, carry) ==
    SubSeq([i \in 1..(Len(a) + 1) |->
               ((2 * Digit(a, i - 1)) % 256)
               + (IF i = 1 THEN carry ELSE Digit(a, i - 2) \div 128)],
           1, Len(a) + 1)

\* a << 1
NumShl1(a) == Normalize(ShiftDigits(a, 0))

(***************************************************************************)
(* lut_constants                                                           *)
(***************************************************************************)
LUT_FLASH_STATUS_IDLE == 0
LUT_FLASH_STATUS_DATA_ACCEPTED == 2
LUT_TABLE_INFO_INSTR == 0
LUT_TABLE_INFO_F1_START == 0
LUT_TABLE_INFO_F1_END == 1
LUT_SIN_RAMP_TO_INSTR == 1
LUT_SIN_RAMP_TO_F1_FROM_ACT == 0
LUT_SIN_RAMP_TO_F1_FROM_NOM == 1
LUT_REPEAT_MARK_INSTR == 2
LUT_REPEAT_MARK_F1_START == 0
LUT_REPEAT_MARK_F1_END == 1
LUT_LIN_RAMP_TIME_INSTR == 3
LUT_STATUS_INSTR == 4
LUT_STATUS_F1_DISABLE == 0
LUT_STATUS_F1_ENABLE == 2
LUT_WAIT_INSTR == 5
LUT_WAIT_F1_FOREVER == 0
LUT_WAIT_F1_TIME == 1
LUT_SET_FLOAT_INSTR == 6
LUT_SET_INT_INSTR == 7
LUT_WAIT_TILL_STABLE_INSTR == 8
LUT_CHANGE_TARGET_INST_INSTR == 9
LUT_EOF_INSTR == 254

(***************************************************************************)
(* LutRecord                                                               *)
(***************************************************************************)
\* LutRecord()
LutRecord ==
    [instruction |-> 0, field1 |-> 0, field1b0 |-> 0, field1b1 |-> 0, field1b2 |-> 0,
     instruction_and_field_1 |-> <<>>, field2 |-> <<>>, field2_int |-> <<>>,
     field2_b0 |-> 0, field2_b1 |-> 0, field2_b2 |-> 0, field2_b3 |-> 0]

\* instruction | b0 << 8 | b1 << 16 | b2 << 24
InstructionAndField1(instruction, b0, b1, b2) ==
    NumOr(NumOr(NumOr(NumOf(instruction), NumShlBytes(NumOf(b0), 1)),
                NumShlBytes(NumOf(b1), 2)),
          NumShlBytes(NumOf(b2), 3))

\* record.instruction = new_value
instruction_setter(record, new_value) ==
    [record EXCEPT
       !.instruction = new_value,
       !.instruction_and_field_1 =
           InstructionAndField1(new_value, record.field1b0, record.field1b1, record.field1b2)]

\* record.field1 = new_value, new_value >= 0
field1_setter(record, new_value) ==
    [record EXCEPT
       !.field1 = new_value,
       !.field1b0 = new_value % 256,
       !.field1b1 = (new_value \div 256) % 256,
       !.field1b2 = (new_value \div 65536) % 256,
       !.instruction_and_field_1 =
           InstructionAndField1(record.instruction, new_value % 256,
                                (new_value \div 256) % 256, (new_value \div 65536) % 256)]

\* record.field1b0 = new_value, a byte: _field1 is put together again,
\* _instruction_and_field_1 is left as it was
field1b0_setter(record, new_value) ==
    [record EXCEPT
       !.field1b0 = new_value,
       !.field1 = new_value + 256 * record.field1b1 + 65536 * record.field1b2]

\* record.field1b1 = new_value, a byte
field1b1_setter(record, new_value) ==
    [record EXCEPT
       !.field1b1 = new_value,
       !.field1 = record.field1b0 + 256 * new_value + 65536 * record.field1b2]

\* record.field1b2 = new_value, a byte
field1b2_setter(record, new_value) ==
    [record EXCEPT
       !.field1b2 = new_value,
       !.field1 = record.field1b0 + 256 * record.field1b1 + 65536 * new_value]

\* record.field2_int = new_value, new_value >= 0 of any size
field2_int_setter(record, new_value) ==
    [record EXCEPT
       !.field2_int = new_value,
       !.field2 = new_value,
       !.field2_b0 = Digit(new_value, 0),
       !.field2_b1 = Digit(new_value, 1),
       !.field2_b2 = Digit(new_value, 2),
       !.field2_b3 = Digit(new_value, 3)]

\* pack('f', value) for the texts float() is given here: the four bytes of
\* the IEEE 754 single, least significant first
PackFloat ==
    [text \in {"0", "1", "1.5", "25.0"} |->
        CASE text = "0" -> <<0, 0, 0, 0>>
          [] text = "1" -> <<0, 0, 128, 63>>
          [] text = "1.5" -> <<0, 0, 192, 63>>
          [] text = "25.0" -> <<0, 0, 200, 65>>]

\* record.field2_float = new_value, new_value given as its four packed bytes
field2_float_setter(record, bytes_) ==
    [record EXCEPT
       !.field2 = NumOr(NumOr(NumOr(NumOf(bytes_[1]), NumShlBytes(NumOf(bytes_[2]), 1)),
                              NumShlBytes(NumOf(bytes_[3]), 2)),
                        NumShlBytes(NumOf(bytes_[4]), 3)),
       !.field2_b0 = bytes_[1],
       !.field2_b1 = bytes_[2],
       !.field2_b2 = bytes_[3],
       !.field2_b3 = bytes_[4]]

\* get_int_array()
get_int_array(record) == <<record.instruction_and_field_1, record.field2>>

\* the record with the bytes of each field most significant first
get_bytes_msb_first(record) ==
    <<record.instruction, record.field1b2, record.field1b1, record.field1b0,
      record.field2_b3, record.field2_b2, record.field2_b1, record.field2_b0>>

\* get_bytes()
get_bytes(record) ==
    <<record.instruction, record.field1b0, record.field1b1, record.field1b2,
      record.field2_b0, record.field2_b1, record.field2_b2, record.field2_b3>>

(***************************************************************************)
(* Python strings, as the lookup table code uses them.                     *)
(***************************************************************************)
\* needle in text
Contains(text, needle) ==
    \E i \in 1..(Len(text) - Len(needle) + 1) :
        SubSeq(text, i, i + Len(needle) - 1) = needle

RECURSIVE SplitFrom(_, _, _)
\* the fields of text after the field begun with acc
SplitFrom(text, sep, acc) ==
    IF text = "" THEN <<acc>>
    ELSE IF Head(text) = sep THEN <<acc>> \o SplitFrom(Tail(text), sep, "")
    ELSE SplitFrom(Tail(text), sep, acc \o Head(text))

\* text.split(sep) for a separator of one character
Split(text, sep) == SplitFrom(text, sep, "")

WhiteSpace == {" ", "\t", "\n", "\r"}

RECURSIVE Strip(_)
\* text.strip(), which int() and float() apply to their argument
Strip(text) ==
    IF text = "" THEN text
    ELSE IF Head(text) \in WhiteSpace THEN Strip(Tail(text))
    ELSE IF SubSeq(text, Len(text), Len(text)) \in WhiteSpace
    THEN Strip(SubSeq(text, 1, Len(text) - 1))
    ELSE text

DecimalChars == {"0", "1", "2", "3", "4", "5", "6", "7", "8", "9"}

\* int(text) raises no ValueError (the texts given here carry no sign)
IsInt(text) ==
    /\ Strip(text) # ""
    /\ \A i \in 1..Len(Strip(text)) : SubSeq(Strip(text), i, i) \in DecimalChars

RECURSIVE DecimalValue(_)
DecimalValue(digits) ==
    IF digits = "" THEN 0
    ELSE 10 * DecimalValue(SubSeq(digits, 1, Len(digits) - 1))
         + CONVERT_TO_DEC_DICT[SubSeq(digits, Len(digits), Len(digits))]

\* int(text)
IntOf(text) == DecimalValue(Strip(text))

\* float(text) raises no ValueError
IsFloat(text) == Strip(text) \in DOMAIN PackFloat

(***************************************************************************)
(* LutCmd: the table CRC, the pages, the CSV file                          *)
(***************************************************************************)
\* 0x04C11DB7, the polynomial used in STM32
CRC32_POLYNOMIAL == <<183, 29, 193, 4>>

\* old_crc = 0xFFFFFFFF
CRC32_START == <<255, 255, 255, 255>>

RECURSIVE Crc32Shift(_, _)
\* n passes of: if crc & 0x80000000: crc = (crc << 1) ^ polynomial else crc <<= 1
Crc32Shift(crc, n) ==
    IF n = 0 \/ crc = <<>> THEN crc        \* 0 stays 0 however often it is shifted
    ELSE Crc32Shift(IF Digit(crc, 3) >= 128
                    THEN NumXor(NumShl1(crc), CRC32_POLYNOMIAL)
                    ELSE NumShl1(crc),
                    n - 1)

\* _crc32_calc(crc, data)
_crc32_calc(crc, data) == Crc32Shift(NumXor(crc, data), 32)

\* _calc_crc(crc, record)
_calc_crc(crc, record) ==
    _crc32_calc(_crc32_calc(crc, get_int_array(record)[1]), get_int_array(record)[2])

RECURSIVE AddCrcLoop(_)
\* the loop of _add_crc_to_table; loop = [records, i, old_crc] are the
\* list, the place of the record the loop is at, and the local old_crc
AddCrcLoop(loop) ==
    IF loop.i > Len(loop.records) THEN loop.records
    ELSE IF loop.records[loop.i].instruction # LUT_EOF_INSTR
    THEN AddCrcLoop([loop EXCEPT !.i = loop.i + 1,
                                 !.old_crc = _calc_crc(loop.old_crc, loop.records[loop.i])])
    ELSE AddCrcLoop([loop EXCEPT !.i = loop.i + 1,
                                 !.records[loop.i] =
                                     field2_int_setter(loop.records[loop.i], loop.old_crc)])

\* _add_crc_to_table(records): the list as it is left
_add_crc_to_table(records) ==
    AddCrcLoop([records |-> records, i |-> 1, old_crc |-> CRC32_START])

\* ceil(count / max_list_size)
PageCount(count, max_list_size) == (count + max_list_size - 1) \div max_list_size

Min(a, b) == IF a <= b THEN a ELSE b

\* a split that keeps the full pages only
SplitWholePagesOnly(list_input, max_list_size) ==
    [k \in 1..(Len(list_input) \div max_list_size) |->
        SubSeq(list_input, (k - 1) * max_list_size + 1, k * max_list_size)]

\* _split_list(list_input, max_list_size), max_list_size >= 1: one slice
\* list_input[i:i + min(max_list_size, count - i)] for each i of
\* range(0, count, max_list_size)
_split_list(list_input, max_list_size) ==
    [k \in 1..PageCount(Len(list_input), max_list_size) |->
        SubSeq(list_input, (k - 1) * max_list_size + 1,
               Min(k * max_list_size, Len(list_input)))]

\* an index that is 0 for every list
FirstPlace(lists, list_) == 0

\* lists.index(list_), list_ being in lists: the place, from 0, of the first
\* list equal to it
Index(lists, list_) ==
    (CHOOSE i \in 1..Len(lists) :
        /\ lists[i] = list_
        /\ \A j \in 1..(i - 1) : lists[j] # list_) - 1

\* if payload_length < 524
PAGE_PAYLOAD_LENGTH == 524

RECURSIVE RecordsBytes(_)
\* lut_record_bytearray: get_bytes() of each record of the page, in order
RecordsBytes(list_lut_record) ==
    IF list_lut_record = <<>> THEN <<>>
    ELSE RecordsBytes(SubSeq(list_lut_record, 1, Len(list_lut_record) - 1))
         \o get_bytes(list_lut_record[Len(list_lut_record)])

\* a payload that is left as long as the records made it
NoPadding(payload) == payload

\* add_uint4(payload, 0) until the payload is 524 characters long
PadPayload(payload) ==
    IF Len(payload) < PAGE_PAYLOAD_LENGTH
    THEN payload \o SubSeq([i \in 1..(PAGE_PAYLOAD_LENGTH - Len(payload)) |->
                               add_uint4(<<>>, 0)[1]],
                           1, PAGE_PAYLOAD_LENGTH - Len(payload))
    ELSE payload

\* _download_page: tx_frame.payload as it is given to set()
PagePayload(list_lut_record, page_offset) ==
    PadPayload(add_byte_array(add_uint32(add_uint4(add_string(<<>>, <<"?", "L", "T">>), 1),
                                         page_offset),
                              RecordsBytes(list_lut_record)))

\* start_analyze_lut: tx_frame.payload as it is given to query()
AnalyzePayload == add_uint4(add_string(<<>>, <<"?", "L", "T">>), 2)

\* "if field1 == <name>: record.field1 = <value> ... else: raise LutException":
\* [exc, record]
Field1Enumeration(record, field1, values) ==
    IF field1 \in DOMAIN values
    THEN [exc |-> "none", record |-> field1_setter(record, values[field1])]
    ELSE [exc |-> "LutException", record |-> record]

\* then "record.field2_int = int(field2)"
ThenField2Int(step, field2) ==
    IF step.exc # "none" THEN step
    ELSE IF ~IsInt(field2) THEN [exc |-> "ValueError", record |-> step.record]
    ELSE [exc |-> "none", record |-> field2_int_setter(step.record, NumOf(IntOf(field2)))]

\* then "record.field2_float = float(field2)"
ThenField2Float(step, field2) ==
    IF step.exc # "none" THEN step
    ELSE IF ~IsFloat(field2) THEN [exc |-> "ValueError", record |-> step.record]
    ELSE [exc |-> "none", record |-> field2_float_setter(step.record, PackFloat[Strip(field2)])]

\* "f1_temp = int(field1); if <in range>: record.field1 = f1_temp", in_range
\* telling whether int(field1) is a number in the range
Field1Number(record, field1, in_range) ==
    IF ~IsInt(field1) THEN [exc |-> "ValueError", record |-> record]
    ELSE IF in_range
    THEN [exc |-> "none", record |-> field1_setter(record, IntOf(field1))]
    ELSE [exc |-> "none", record |-> record]

\* if 10 >= f1_temp >= 16_777_216, for f1_temp = int(field1)
LinRampTimeInRange(field1) ==
    IsInt(field1) /\ 10 >= IntOf(field1) /\ IntOf(field1) >= 16777216

\* if 0 <= f1temp <= 16_777_216, for f1temp = int(field1)
SetValueInRange(field1) ==
    IsInt(field1) /\ 0 <= IntOf(field1) /\ IntOf(field1) <= 16777216

\* the try block of _enumerate_lut: [exc, record], exc the exception it
\* raises and record the local record at that point
EnumerateTry(instruction, field1, field2) ==
    LET rec(instr) == instruction_setter(LutRecord, instr)
        ok(r) == [exc |-> "none", record |-> r]
    IN  CASE instruction = "TABLE_INFO" ->
               ThenField2Int(Field1Enumeration(rec(LUT_TABLE_INFO_INSTR), field1,
                                 [t \in {"START", "END"} |->
                                     IF t = "START" THEN LUT_TABLE_INFO_F1_START
                                     ELSE LUT_TABLE_INFO_F1_END]),
                             field2)
          [] instruction = "SIN_RAMP_TO" ->
               ThenField2Float(Field1Enumeration(rec(LUT_SIN_RAMP_TO_INSTR), field1,
                                 [t \in {"FROM_ACT", "FROM_NOM"} |->
                                     IF t = "FROM_ACT" THEN LUT_SIN_RAMP_TO_F1_FROM_ACT
                                     ELSE LUT_SIN_RAMP_TO_F1_FROM_NOM]),
                               field2)
          [] instruction = "REPEAT_MARK" ->
               Field1Enumeration(rec(LUT_REPEAT_MARK_INSTR), field1,
                                 [t \in {"START", "END"} |->
                                     IF t = "START" THEN LUT_REPEAT_MARK_F1_START
                                     ELSE LUT_REPEAT_MARK_F1_END])
          [] instruction = "LIN_RAMP_TIME" ->
               ThenField2Float(Field1Number(rec(LUT_LIN_RAMP_TIME_INSTR), field1,
                                            LinRampTimeInRange(field1)),
                               field2)
          [] instruction = "STATUS" ->
               Field1Enumeration(rec(LUT_STATUS_INSTR), field1,
                                 [t \in {"DISABLE", "ENABLE"} |->
                                     IF t = "DISABLE" THEN LUT_STATUS_F1_DISABLE
                                     ELSE LUT_STATUS_F1_ENABLE])
          [] instruction = "WAIT" ->
               IF field1 = "FOREVER"
               THEN ok(field1_setter(rec(LUT_WAIT_INSTR), LUT_WAIT_F1_FOREVER))
               ELSE IF field1 = "TIME"
               THEN ThenField2Int(ok(field1_setter(rec(LUT_WAIT_INSTR), LUT_WAIT_F1_TIME)),
                                  field2)
               ELSE ok(rec(LUT_WAIT_INSTR))
          [] instruction = "SET_FLOAT" ->
               ThenField2Int(Field1Number(rec(LUT_SET_FLOAT_INSTR), field1, SetValueInRange(field1)),
                             field2)
          [] instruction = "SET_INT" ->
               ThenField2Int(Field1Number(rec(LUT_SET_INT_INSTR), field1, SetValueInRange(field1)),
                             field2)
          [] instruction = "TILL_TEMP_STABLE" -> ok(rec(LUT_WAIT_TILL_STABLE_INSTR))
          [] instruction = "SET_TARGET_INST" ->
               ThenField2Int(ok(rec(LUT_CHANGE_TARGET_INST_INSTR)), field2)
          [] instruction = "EOF" -> ok(rec(LUT_EOF_INSTR))
          [] OTHER -> [exc |-> "LutException", record |-> LutRecord]

\* "finally: return record": the return in the finally clause discards the
\* exception on its way out of the try statement
FinallyReturn(exc) == "none"

\* _enumerate_lut(line, line_count): [exc, record]
_enumerate_lut(line) ==
    LET buffer == Split(line, ";")
    IN  IF Len(buffer) < 3
        THEN [exc |-> "IndexError", record |-> LutRecord]     \* buffer[1], buffer[2]
        ELSE LET tried == EnumerateTry(buffer[1], buffer[2], buffer[3])
             IN  [exc |-> FinallyReturn(tried.exc), record |-> tried.record]

\* the title the first line is searched for
LUT_TITLE == "Instruction;Field 1;Field 2"

RECURSIVE EnumerateLines(_, _, _)
\* the else branch of the loop of _parse_lut_into_list from line i on:
\* [exc, list_]
EnumerateLines(lines, i, list_) ==
    IF i > Len(lines) THEN [exc |-> "none", list_ |-> list_]
    ELSE LET enumerated == _enumerate_lut(lines[i])
         IN  IF enumerated.exc # "none"
             THEN [exc |-> enumerated.exc, list_ |-> list_]
             ELSE EnumerateLines(lines, i + 1, Append(list_, enumerated.record))

RECURSIVE LinesBeforeEof(_, _)
\* the first i - 1 lines and the lines from i up to the first one holding EOF
LinesBeforeEof(lines, i) ==
    IF i > Len(lines) \/ Contains(lines[i], "EOF") THEN SubSeq(lines, 1, i - 1)
    ELSE LinesBeforeEof(lines, i + 1)

\* a parser whose loop ends at the first line that holds EOF
ParseUpToEof(lines) ==
    IF lines = <<>> THEN [exc |-> "none", list_ |-> <<>>]
    ELSE IF ~Contains(lines[1], LUT_TITLE) THEN [exc |-> "LutException", list_ |-> <<>>]
    ELSE EnumerateLines(LinesBeforeEof(lines, 2), 2, <<>>)

\* _parse_lut_into_list(reader) for a file with these lines: [exc, list_]
_parse_lut_into_list(lines) ==
    IF lines = <<>> THEN [exc |-> "none", list_ |-> <<>>]
    ELSE IF ~Contains(lines[1], LUT_TITLE) THEN [exc |-> "LutException", list_ |-> <<>>]
    ELSE EnumerateLines(lines, 2, <<>>)

(***************************************************************************)
(* MeComQuerySet                                                           *)
(***************************************************************************)
VARIABLES
    sequence_number,          \* self.sequence_number
    is_ready,                 \* self.is_ready
    default_device_address,   \* self.default_device_address
    last_crc,                 \* self.me_frame.last_crc
    pc,                       \* "idle", "send", "receive" or "done"
    op,                       \* "query" or "set": the call in progress
    thread,                   \* the thread that made the call
    tx_frame,                 \* the caller's packet
    rx_frame,                 \* local rx_frame of local_query/local_set
    trials_left,              \* local trials_left
    result,                   \* how the call ended: [kind, message, frame]
    tx_log,                   \* the streams given to send_string by this call
    tx_seqs,                  \* sequence_number of tx_frame at each send_frame of this call
    rx_log,                   \* outcome of each get_data_or_timeout of this call
    send_failed,              \* send_string raised in this call
    ready_at_call,            \* is_ready when the call was made
    prev_seqs,                \* tx_seqs of the call before this one
    transactions              \* number of calls made

vars == <<sequence_number, is_ready, default_device_address, last_crc, pc, op, thread,
          tx_frame, rx_frame, trials_left, result, tx_log, tx_seqs, rx_log,
          send_failed, ready_at_call, prev_seqs, transactions>>

(***************************************************************************)
(* State of the frame codec taken alone: one frame is serialized by        *)
(* send_frame and the line is handed back to _decode_frame.                *)
(***************************************************************************)
VARIABLES
    codec_pc,                 \* "off", "new", "sent" or "decoded"
    codec_tx_frame,           \* the frame given to send_frame
    codec_last_crc,           \* self.last_crc of the MeComFrame
    codec_tx_stream,          \* the stream given to send_string, terminator removed
    codec_rx                  \* what _decode_frame made of it: [exc, frame]

codec_vars == <<codec_pc, codec_tx_frame, codec_last_crc, codec_tx_stream, codec_rx>>

(***************************************************************************)
(* State of MeComVarConvert taken alone: a value is written to a stream by *)
(* add_uintN and the field written is read back by read_uintN.             *)
(***************************************************************************)
VARIABLES
    conv_pc,                  \* "off", "new", "added" or "read"
    conv_width,               \* 8, 16, 32 or 64: the N of add_uintN / read_uintN
    conv_value,               \* the value given to add_uintN
    conv_before,              \* the stream given to add_uintN
    conv_stream,              \* the stream add_uintN returned
    conv_read                 \* what read_uintN made of the field: [exc, value]

conv_vars == <<conv_pc, conv_width, conv_value, conv_before, conv_stream, conv_read>>

(***************************************************************************)
(* State of LutCmd.download_lookup_table(address, filepath) for one file,  *)
(* the device being seen through the answers to set() and query().         *)
(***************************************************************************)
VARIABLES
    lut_pc,                   \* "off", "start", "page", "analyze" or "done"
    lut_lines,                \* list(f): the lines of the file
    lut_records,              \* records, once parsed and given the CRC
    lut_lists,                \* lists: the pages, each the list of the places in
                              \* records of its records (a list holds references)
    lut_page,                 \* place in lists of the page being downloaded, from 1
    lut_timeout,              \* the local timeout of the loop being run
    lut_pages_sent,           \* page offsets of the program transactions sent
    lut_analyze_sent,         \* an analyze query was sent
    lut_exc,                  \* the exception download_lookup_table raised, or "none"
    lut_payload,              \* tx_frame.payload of the _download_page being run
    lut_sends,                \* for each _download_page that called set(): the page
                              \* offset, the payload of its first set(), whether
                              \* each later set() carried that payload, whether the
                              \* device accepted the page
    lut_page_sends,           \* the number of set() calls of the _download_page
                              \* being run, or of the one that raised
    lut_analyze_sends,        \* the number of analyze queries sent
    lut_message               \* the message of a LutException raised by a loop

lut_vars == <<lut_pc, lut_lines, lut_records, lut_lists, lut_page, lut_timeout,
              lut_pages_sent, lut_analyze_sent, lut_exc, lut_payload, lut_sends,
              lut_page_sends, lut_analyze_sends, lut_message>>

(***************************************************************************)
(* State of LutCmd._split_list taken alone: a list is split into pages.    *)
(***************************************************************************)
VARIABLES
    split_pc,                 \* "off", "new" or "split"
    split_list,               \* list_input
    split_size,               \* max_list_size
    split_pages               \* the list of lists _split_list returned

split_vars == <<split_pc, split_list, split_size, split_pages>>

(***************************************************************************)
(* State of one LutRecord taken alone: its setters are called and its      *)
(* bytes are read.                                                         *)
(***************************************************************************)
VARIABLES
    rec_pc,                   \* "off", "set" or "read"
    rec_record,               \* the LutRecord
    rec_instruction,          \* the value last given to the instruction setter
    rec_field1,               \* the value last given to the field1 setter
    rec_field2,               \* the 32 bit pattern or the integer last given to
                              \* the field2_float or field2_int setter
    rec_bytes                 \* what get_bytes() returned last

rec_vars == <<rec_pc, rec_record, rec_instruction, rec_field1, rec_field2, rec_bytes>>

(***************************************************************************)
(* State of download_lookup_table of the LutCmd in                         *)
(* src/mecom_tec/lookup_table/lut_cmd.py, the one built on a MeCom         *)
(* instance (program_lut, do_analyze_lut): its two busy loops.             *)
(***************************************************************************)
VARIABLES
    draft_pc,                 \* "off", "enter", "page", "analyze" or "done"
    draft_lists,              \* len(lists): the number of pages
    draft_page,               \* place in lists of the page being downloaded, from 1
    draft_status,             \* lt.RESPONSE.PAYLOAD: the answer to program_lut
    draft_timeout,            \* the local timeout of the loop being run
    draft_page_sends,         \* program_lut calls for the page being downloaded
    draft_analyze_sends,      \* do_analyze_lut calls
    draft_exc                 \* the exception download_lookup_table raised, or "none"

draft_vars == <<draft_pc, draft_lists, draft_page, draft_status, draft_timeout,
                draft_page_sends, draft_analyze_sends, draft_exc>>

(***************************************************************************)
(* State of MeComPhySerialPort.get_data_or_timeout taken alone: one call   *)
(* reads the port byte by byte.                                            *)
(***************************************************************************)
VARIABLES
    phy_pc,                   \* "off", "read" or "done"
    phy_wire,                 \* the bytes that arrive before the read timeout
    phy_frame,                \* local response_frame
    phy_short,                \* the last ser.read returned fewer bytes than asked
    phy_exc,                  \* the exception get_data_or_timeout raised, or "none"
    phy_result                \* the string get_data_or_timeout returned

phy_vars == <<phy_pc, phy_wire, phy_frame, phy_short, phy_exc, phy_result>>

(***************************************************************************)
(* State of the signed and the nibble conversion taken alone: one value is *)
(* written with add_int32 or add_uint4 and the field is read back.         *)
(***************************************************************************)
VARIABLES
    fld_pc,                   \* "off", "new", "added" or "read"
    fld_kind,                 \* "int32" or "uint4"
    fld_value,                \* the value given to add_int32 / add_uint4
    fld_before,               \* the stream the value is appended to
    fld_stream,               \* the stream returned
    fld_read                  \* what the reader made of the field: [exc, value]

fld_vars == <<fld_pc, fld_kind, fld_value, fld_before, fld_stream, fld_read>>

(***************************************************************************)
(* State of MeerstetterTEC.download_lookup_table (tec.py): the upload by   *)
(* LutCmd, then the wait loop on the lookup table status.                  *)
(***************************************************************************)
VARIABLES
    poll_pc,                  \* "off", "upload", "wait", "last" or "done"
    poll_timeout,             \* local timeout
    poll_polls,               \* get_status calls made in the while loop
    poll_status,              \* local status: the last one get_status returned, NONE before
    poll_exc,                 \* the exception download_lookup_table raised, or "none"
    poll_message              \* the message of that exception

poll_vars == <<poll_pc, poll_timeout, poll_polls, poll_status, poll_exc, poll_message>>

(***************************************************************************)
(* State of two threads that call query/set on one MeComQuerySet at the    *)
(* same time: the steps of local_query/local_set on the shared counter.    *)
(***************************************************************************)
VARIABLES
    thr_sequence_number,      \* self.sequence_number, shared by the threads
    thr_pc,                   \* per thread: "off", "call", "loaded", "send", "receive", "done"
    thr_loaded,               \* per thread: the value read by "self.sequence_number += 1"
    thr_trials_left,          \* per thread: local trials_left
    thr_sent                  \* per thread: tx_frame.sequence_number at each send_frame

thr_vars == <<thr_sequence_number, thr_pc, thr_loaded, thr_trials_left, thr_sent>>

(***************************************************************************)
(* State of _enumerate_lut taken alone: one row of the CSV file is turned  *)
(* into a record.                                                          *)
(***************************************************************************)
VARIABLES
    enum_pc,                  \* "off", "new" or "done"
    enum_field1,              \* the text of Field 1 of the row
    enum_field2,              \* the text of Field 2 of the row
    enum_line,                \* the row given to _enumerate_lut
    enum_result               \* what _enumerate_lut made of it: [exc, record]

enum_vars == <<enum_pc, enum_field1, enum_field2, enum_line, enum_result>>

\* the variables of the parts taken alone that the frame codec, the
\* conversions and the download do not touch
part_vars == <<split_vars, rec_vars, draft_vars, phy_vars, fld_vars, poll_vars, thr_vars, enum_vars>>

\* the variables the transaction layer does not touch
other_vars == <<codec_vars, conv_vars, lut_vars, part_vars>>

NoResult == [kind |-> "none", message |-> "", frame |-> MeComPacket("", PACKET_DEFAULT_ADDRESS)]

\* random.randrange(0, 65_535, 1) yields 0 .. 65534; the model draws the ends
\* of that range and one value in between
InitialSequenceNumbers == {0, 4660, RANDRANGE_STOP - 2, RANDRANGE_STOP - 1}

\* MeComFrame.__init__ and a frame not yet built
CodecOff ==
    /\ codec_pc = "off"
    /\ codec_tx_frame = MeComPacket("#", PACKET_DEFAULT_ADDRESS)
    /\ codec_last_crc = 0
    /\ codec_tx_stream = <<>>
    /\ codec_rx = [exc |-> "none", frame |-> MeComPacket("", PACKET_DEFAULT_ADDRESS)]

\* MeComVarConvert(): nothing written yet
ConvertOff ==
    /\ conv_pc = "off"
    /\ conv_width = 8
    /\ conv_value = 0
    /\ conv_before = <<>>
    /\ conv_stream = <<>>
    /\ conv_read = [exc |-> "none", value |-> 0]

\* LutCmd(mecom_query_set): no file given yet
LutOff ==
    /\ lut_pc = "off"
    /\ lut_lines = <<>>
    /\ lut_records = <<>>
    /\ lut_lists = <<>>
    /\ lut_page = 0
    /\ lut_timeout = 0
    /\ lut_pages_sent = {}
    /\ lut_analyze_sent = FALSE
    /\ lut_exc = "none"
    /\ lut_payload = <<>>
    /\ lut_sends = <<>>
    /\ lut_page_sends = 0
    /\ lut_analyze_sends = 0
    /\ lut_message = ""

\* _split_list not called
SplitOff ==
    /\ split_pc = "off"
    /\ split_list = <<>>
    /\ split_size = 1
    /\ split_pages = <<>>

\* LutRecord(): no setter called
RecordOff ==
    /\ rec_pc = "off"
    /\ rec_record = LutRecord
    /\ rec_instruction = 0
    /\ rec_field1 = 0
    /\ rec_field2 = <<>>
    /\ rec_bytes = <<>>

\* LutCmd(mecom_instance): download_lookup_table not called
DraftOff ==
    /\ draft_pc = "off"
    /\ draft_lists = 0
    /\ draft_page = 0
    /\ draft_status = 0
    /\ draft_timeout = 0
    /\ draft_page_sends = 0
    /\ draft_analyze_sends = 0
    /\ draft_exc = "none"

\* MeComPhySerialPort(): get_data_or_timeout not called
PhyOff ==
    /\ phy_pc = "off"
    /\ phy_wire = <<>>
    /\ phy_frame = <<>>
    /\ phy_short = FALSE
    /\ phy_exc = "none"
    /\ phy_result = <<>>

\* MeComVarConvert(): add_int32 and add_uint4 not called
FieldOff ==
    /\ fld_pc = "off"
    /\ fld_kind = "int32"
    /\ fld_value = 0
    /\ fld_before = <<>>
    /\ fld_stream = <<>>
    /\ fld_read = [exc |-> "none", value |-> 0]

\* MeerstetterTEC(): download_lookup_table not called
PollOff ==
    /\ poll_pc = "off"
    /\ poll_timeout = 0
    /\ poll_polls = 0
    /\ poll_status = NONE
    /\ poll_exc = "none"
    /\ poll_message = ""

\* the threads that call query/set at the same time
ThreadIds == {1, 2}

\* no thread has called query/set
ThreadsOff ==
    /\ thr_sequence_number = 0
    /\ thr_pc = [t \in ThreadIds |-> "off"]
    /\ thr_loaded = [t \in ThreadIds |-> 0]
    /\ thr_trials_left = [t \in ThreadIds |-> 0]
    /\ thr_sent = [t \in ThreadIds |-> <<>>]

\* LutCmd(): _enumerate_lut not called
EnumerateOff ==
    /\ enum_pc = "off"
    /\ enum_field1 = ""
    /\ enum_field2 = ""
    /\ enum_line = ""
    /\ enum_result = [exc |-> "none", record |-> LutRecord]

\* none of the parts taken alone is at work
PartsOff ==
    /\ SplitOff
    /\ RecordOff
    /\ DraftOff
    /\ PhyOff
    /\ FieldOff
    /\ PollOff
    /\ ThreadsOff
    /\ EnumerateOff

\* MeComQuerySet.__init__ and MeComFrame.__init__
Init ==
    /\ CodecOff
    /\ ConvertOff
    /\ LutOff
    /\ PartsOff
    /\ sequence_number \in InitialSequenceNumbers
    /\ is_ready = FALSE
    /\ default_device_address = DEFAULT_ADDRESS
    /\ last_crc = 0
    /\ pc = "idle"
    /\ op = "none"
    /\ thread = "creator"
    /\ tx_frame = MeComPacket("#", PACKET_DEFAULT_ADDRESS)
    /\ rx_frame = MeComPacket("", PACKET_DEFAULT_ADDRESS)
    /\ trials_left = 0
    /\ result = NoResult
    /\ tx_log = <<>>
    /\ tx_seqs = <<>>
    /\ rx_log = <<>>
    /\ send_failed = FALSE
    /\ ready_at_call = FALSE
    /\ prev_seqs = <<>>
    /\ transactions = 0

\* set_is_ready, called from application level between two calls
set_is_ready(value) ==
    /\ pc \in {"idle", "done"}
    /\ is_ready' = value
    /\ pc' = "idle"
    /\ result' = NoResult
    /\ UNCHANGED other_vars
    /\ UNCHANGED <<sequence_number, default_device_address, last_crc, op, thread,
                   tx_frame, rx_frame, trials_left, tx_log, tx_seqs, rx_log,
                   send_failed, ready_at_call, prev_seqs, transactions>>

\* check_if_connected: returns True; it raises nothing, whatever the thread
check_if_connected(t, ready) == TRUE

\* handlers that leave is_ready alone on a GeneralException
IsReadyKept(exc, ready) == ready

\* handlers that also mark the interface ready when the call returns
IsReadySetOnReturn(exc, ready) ==
    IF exc = "GeneralException" THEN FALSE ELSE IF exc = "none" THEN TRUE ELSE ready

\* query/set, the handlers around local_query/local_set: the value of is_ready
\* after the call ended with exception exc ("none": a normal return)
IsReadyAfter(exc, ready) ==
    IF exc = "GeneralException" THEN FALSE ELSE ready

\* a transaction that does not advance the sequence number
SameSequenceNumber(seq) == seq

\* self.sequence_number += 1: the number local_query/local_set give the new
\* transaction (a Python int: no wrap)
NextSequenceNumber(seq) == seq + 1

\* a broadcast that is awaited like any other address
AnswerAlwaysExpected(address) == FALSE

\* if tx_frame.address == 255: return rx_frame
NoAnswerExpected(address) == address = BROADCAST

\* a timeout that is already final when one trial is left
TimeoutIsFinalEarly(trials) == trials <= 1

\* if trials_left == 0: raise GeneralException("... Timeout!")
TimeoutIsFinal(trials) == trials = 0

\* the call ends: query/set return frame or raise exc
EndCall(exc, message, frame) ==
    /\ pc' = "done"
    /\ result' = [kind |-> exc, message |-> message, frame |-> frame]
    /\ is_ready' = IsReadyAfter(exc, is_ready)

\* query(tx_frame) / set(tx_frame) up to the loop of local_query/local_set:
\* check_if_connected, the default address, the sequence number, trials_left
Call(o, t, address, payload) ==
    /\ pc \in {"idle", "done"}
    /\ transactions < MaxTransactions
    /\ transactions' = transactions + 1
    /\ op' = o
    /\ thread' = t
    /\ ready_at_call' = is_ready
    /\ prev_seqs' = tx_seqs
    /\ tx_log' = <<>>
    /\ tx_seqs' = <<>>
    /\ rx_log' = <<>>
    /\ send_failed' = FALSE
    /\ IF check_if_connected(t, is_ready)
       THEN /\ tx_frame' = [MeComPacket("#", IF address = NONE
                                              THEN default_device_address
                                              ELSE address)
                              EXCEPT !.payload = payload]
            /\ sequence_number' = NextSequenceNumber(sequence_number)
            /\ trials_left' = TRIALS
            /\ rx_frame' = MeComPacket("", PACKET_DEFAULT_ADDRESS)
            /\ pc' = "send"
            /\ result' = NoResult
            /\ UNCHANGED is_ready
       ELSE /\ EndCall("NotConnectedException", "", MeComPacket("", PACKET_DEFAULT_ADDRESS))
            /\ UNCHANGED <<tx_frame, sequence_number, trials_left, rx_frame>>
    /\ UNCHANGED other_vars
    /\ UNCHANGED <<default_device_address, last_crc>>

query(t, address) == Call("query", t, address, QueryPayload)

set(t, address) == Call("set", t, address, SetPayload)

\* the exception local_query/local_set raise for an exception exc caught in
\* the loop body other than a timeout: ServerException is re-raised, every
\* other Exception becomes a GeneralException
Translate(exc) == IF exc = "ServerException" THEN exc ELSE "GeneralException"

\* one pass of the loop up to the receive: trials_left -= 1, the sequence
\* number is put in the frame, send_frame serializes it, caches the CRC and
\* hands the stream to the transport, which accepts it
SendFrame ==
    /\ pc = "send"
    /\ trials_left > 0
    /\ trials_left' = trials_left - 1
    /\ tx_frame' = [tx_frame EXCEPT !.sequence_number = sequence_number]
    /\ last_crc' = _calc_crc_citt(TxStreamBody(tx_frame'))
    /\ tx_seqs' = Append(tx_seqs, tx_frame'.sequence_number)
    /\ tx_log' = Append(tx_log, TxStream(tx_frame'))
    /\ IF NoAnswerExpected(tx_frame'.address)
       THEN EndCall("none", "", rx_frame)      \* no answer is expected
       ELSE /\ pc' = "receive"
            /\ UNCHANGED <<result, is_ready>>
    /\ UNCHANGED other_vars
    /\ UNCHANGED <<sequence_number, default_device_address, op, thread, rx_frame,
                   rx_log, send_failed, ready_at_call, prev_seqs, transactions>>

\* the same pass when send_string raises (a transport error)
SendFrameFails ==
    /\ pc = "send"
    /\ trials_left > 0
    /\ trials_left' = trials_left - 1
    /\ tx_frame' = [tx_frame EXCEPT !.sequence_number = sequence_number]
    /\ last_crc' = _calc_crc_citt(TxStreamBody(tx_frame'))
    /\ tx_seqs' = Append(tx_seqs, tx_frame'.sequence_number)
    /\ send_failed' = TRUE
    /\ EndCall(Translate("MeComPhyInterfaceException"), "send", rx_frame)
    /\ UNCHANGED other_vars
    /\ UNCHANGED <<sequence_number, default_device_address, op, thread, rx_frame,
                   tx_log, rx_log, ready_at_call, prev_seqs, transactions>>

\* a timeout that ends the call at once, whatever trials are left
ReceiveTimeoutRaises ==
    /\ pc = "receive"
    /\ rx_log' = Append(rx_log, "timeout")
    /\ EndCall("GeneralException", "Timeout", rx_frame)
    /\ UNCHANGED other_vars
    /\ UNCHANGED <<sequence_number, default_device_address, last_crc, op, thread,
                   tx_frame, rx_frame, trials_left, tx_log, tx_seqs, send_failed,
                   ready_at_call, prev_seqs, transactions>>

\* receive_frame_or_timeout raises MeComPhyTimeoutException: ignored while
\* trials are left, else GeneralException("... Timeout!")
ReceiveTimeout ==
    /\ pc = "receive"
    /\ rx_log' = Append(rx_log, "timeout")
    /\ IF TimeoutIsFinal(trials_left)
       THEN EndCall("GeneralException", "Timeout", rx_frame)
       ELSE /\ pc' = "send"
            /\ UNCHANGED <<result, is_ready>>
    /\ UNCHANGED other_vars
    /\ UNCHANGED <<sequence_number, default_device_address, last_crc, op, thread,
                   tx_frame, rx_frame, trials_left, tx_log, tx_seqs, send_failed,
                   ready_at_call, prev_seqs, transactions>>

\* a transport error that is swallowed and retried like a timeout
ReceiveFailsRetried ==
    /\ pc = "receive"
    /\ rx_log' = Append(rx_log, "error")
    /\ IF TimeoutIsFinal(trials_left)
       THEN EndCall("GeneralException", "Timeout", rx_frame)
       ELSE /\ pc' = "send"
            /\ UNCHANGED <<result, is_ready>>
    /\ UNCHANGED other_vars
    /\ UNCHANGED <<sequence_number, default_device_address, last_crc, op, thread,
                   tx_frame, rx_frame, trials_left, tx_log, tx_seqs, send_failed,
                   ready_at_call, prev_seqs, transactions>>

\* get_data_or_timeout raises MeComPhyInterfaceException
ReceiveFails ==
    /\ pc = "receive"
    /\ rx_log' = Append(rx_log, "error")
    /\ EndCall(Translate("MeComPhyInterfaceException"), "receive", rx_frame)
    /\ UNCHANGED other_vars
    /\ UNCHANGED <<sequence_number, default_device_address, last_crc, op, thread,
                   tx_frame, rx_frame, trials_left, tx_log, tx_seqs, send_failed,
                   ready_at_call, prev_seqs, transactions>>

\* get_data_or_timeout returns a line: receive_frame_or_timeout decodes it
\* into a fresh MeComPacket(); the decoded frame is returned to the caller,
\* an exception of the decoder ends the call
ReceiveLine(kind) ==
    LET decoded == _decode_frame(MeComPacket("", PACKET_DEFAULT_ADDRESS),
                                 DeviceLine(kind, tx_frame, last_crc), last_crc)
    IN  /\ pc = "receive"
        /\ rx_log' = Append(rx_log, kind)
        /\ IF decoded.exc # "none"
           THEN /\ EndCall(Translate(decoded.exc), decoded.exc, rx_frame)
                /\ UNCHANGED rx_frame
           ELSE \* return rx_frame: neither its type, its sequence number, its
                \* address nor its payload is looked at
                /\ rx_frame' = decoded.frame
                /\ EndCall("none", "", decoded.frame)
        /\ UNCHANGED other_vars
        /\ UNCHANGED <<sequence_number, default_device_address, last_crc, op, thread,
                       tx_frame, trials_left, tx_log, tx_seqs, send_failed,
                       ready_at_call, prev_seqs, transactions>>

Next ==
    \/ \E value \in BOOLEAN : set_is_ready(value)
    \/ \E t \in Threads, address \in Addresses : query(t, address)
    \/ \E t \in Threads, address \in Addresses : set(t, address)
    \/ SendFrame
    \/ SendFrameFails
    \/ ReceiveTimeout
    \/ ReceiveFails
    \/ \E kind \in LineKinds : ReceiveLine(kind)

Spec == Init /\ [][Next]_vars

(***************************************************************************)
(* The frame codec taken alone.                                            *)
(***************************************************************************)
\* longest payload of a frame given to the codec
MaxPayloadLen == 2

\* characters a payload is made of
PayloadChars == {"0", "A", "?", "+"}

\* the payloads of at most n characters
PayloadsUpTo(n) == UNION {[1..k -> PayloadChars] : k \in 0..n}

CodecAddresses == {0, 1, 2, 16, 255}

CodecSequenceNumbers == {0, 1, 4660, 32768, 65535}

\* a MeComQuerySet that makes no call
QuerySetIdle ==
    /\ sequence_number = 0
    /\ is_ready = FALSE
    /\ default_device_address = DEFAULT_ADDRESS
    /\ last_crc = 0
    /\ pc = "idle"
    /\ op = "none"
    /\ thread = "creator"
    /\ tx_frame = MeComPacket("#", PACKET_DEFAULT_ADDRESS)
    /\ rx_frame = MeComPacket("", PACKET_DEFAULT_ADDRESS)
    /\ trials_left = 0
    /\ result = NoResult
    /\ tx_log = <<>>
    /\ tx_seqs = <<>>
    /\ rx_log = <<>>
    /\ send_failed = FALSE
    /\ ready_at_call = FALSE
    /\ prev_seqs = <<>>
    /\ transactions = 0

\* a MeComFrame and a packet filled in by the caller
InitCodec ==
    /\ QuerySetIdle
    /\ ConvertOff
    /\ LutOff
    /\ PartsOff
    /\ codec_pc = "new"
    /\ \E address \in CodecAddresses, seq \in CodecSequenceNumbers,
          payload \in PayloadsUpTo(MaxPayloadLen) :
          codec_tx_frame = [MeComPacket("#", address)
                              EXCEPT !.sequence_number = seq, !.payload = payload]
    /\ codec_last_crc = 0
    /\ codec_tx_stream = <<>>
    /\ codec_rx = [exc |-> "none", frame |-> MeComPacket("", PACKET_DEFAULT_ADDRESS)]

\* send_frame(tx_frame): the stream is built, its CRC cached and appended
CodecSendFrame ==
    /\ codec_pc = "new"
    /\ codec_last_crc' = _calc_crc_citt(TxStreamBody(codec_tx_frame))
    /\ codec_tx_stream' = TxStream(codec_tx_frame)
    /\ codec_pc' = "sent"
    /\ UNCHANGED <<codec_tx_frame, codec_rx>>
    /\ UNCHANGED <<vars, conv_vars, lut_vars, part_vars>>

\* receive_frame_or_timeout when the line read is the line just sent
CodecDecodeFrame ==
    /\ codec_pc = "sent"
    /\ codec_rx' = _decode_frame(MeComPacket("", PACKET_DEFAULT_ADDRESS),
                                 codec_tx_stream, codec_last_crc)
    /\ codec_pc' = "decoded"
    /\ UNCHANGED <<codec_tx_frame, codec_last_crc, codec_tx_stream>>
    /\ UNCHANGED <<vars, conv_vars, lut_vars, part_vars>>

NextCodec ==
    \/ CodecSendFrame
    \/ CodecDecodeFrame

SpecCodec == InitCodec /\ [][NextCodec]_<<vars, other_vars>>

(***************************************************************************)
(* MeComVarConvert taken alone.                                            *)
(***************************************************************************)
Widths == {8, 16, 32, 64}

\* the values drawn for each width: all of u8, and for the wider ones the
\* values around each change in the number of hex digits, as far as the
\* model checker's integers reach
ValuesOf(width) ==
    CASE width = 8 -> 0..255
      [] width = 16 -> {0, 15, 16, 255, 256, 4095, 4096, 32767, 32768, 65535}
      [] width = 32 -> {0, 255, 65535, 65536, 16777215, 16777216,
                        268435455, 268435456, 2147483647}
      [] width = 64 -> {0, 1, 255, 65535, 65536, 16777216, 268435456, 2147483647}

\* the streams a value is appended to
Streams == {<<>>, <<"?", "V", "R">>}

\* the stream add_uintN(stream, value) returns
add_uint(width, stream, value) ==
    CASE width = 8 -> add_uint8(stream, value)
      [] width = 16 -> add_uint16(stream, value)
      [] width = 32 -> add_uint32(stream, value)
      [] width = 64 -> add_uint64(stream, value)

\* read_uintN(stream): [exc, value]
read_uint(width, stream) ==
    LET exc == UnpackException(stream, width \div 8)
    IN  [exc |-> exc,
         value |-> IF exc # "none" THEN 0
                   ELSE CASE width = 8 -> read_uint8(stream)
                          [] width = 16 -> read_uint16(stream)
                          [] width = 32 -> read_uint32(stream)
                          [] width = 64 -> read_uint64(stream)]

InitConvert ==
    /\ QuerySetIdle
    /\ CodecOff
    /\ LutOff
    /\ PartsOff
    /\ conv_pc = "new"
    /\ conv_width \in Widths
    /\ conv_value \in ValuesOf(conv_width)
    /\ conv_before \in Streams
    /\ conv_stream = <<>>
    /\ conv_read = [exc |-> "none", value |-> 0]

\* stream = add_uintN(stream, value)
ConvertAdd ==
    /\ conv_pc = "new"
    /\ conv_stream' = add_uint(conv_width, conv_before, conv_value)
    /\ conv_pc' = "added"
    /\ UNCHANGED <<conv_width, conv_value, conv_before, conv_read>>
    /\ UNCHANGED <<vars, codec_vars, lut_vars, part_vars>>

\* the field just written
Appended == Slice(conv_stream, Len(conv_before), Len(conv_stream))

\* read_uintN(field) for the field just written
ConvertRead ==
    /\ conv_pc = "added"
    /\ conv_read' = read_uint(conv_width, Appended)
    /\ conv_pc' = "read"
    /\ UNCHANGED <<conv_width, conv_value, conv_before, conv_stream>>
    /\ UNCHANGED <<vars, codec_vars, lut_vars, part_vars>>

NextConvert ==
    \/ ConvertAdd
    \/ ConvertRead

SpecConvert == InitConvert /\ [][NextConvert]_<<vars, other_vars>>

(***************************************************************************)
(* LutCmd.download_lookup_table                                            *)
(***************************************************************************)
\* most lines a file drawn has after its first one
MaxRows == 2

\* _split_list(list_input=records, max_list_size=32)
MAX_LIST_SIZE == 32
\* if timeout < 50, in _download_page
PAGE_TIMEOUT_LIMIT == 50
\* if timeout < 50, in _start_analyze_and_wait
ANALYZE_TIMEOUT_LIMIT == 50

\* first lines: the title, a line the title is found in, a line without it
TitleLines ==
    {"Instruction;Field 1;Field 2\n",
     "# Instruction;Field 1;Field 2 (v2)\n",
     "Instruction;Field 1\n"}

\* later lines: three instruction rows, the EOF row, a row with an unknown
\* instruction, a row with an unknown Field 1 and an empty line
DataLines ==
    {"TABLE_INFO;START;0\n",
     "SIN_RAMP_TO;FROM_ACT;25.0\n",
     "TABLE_INFO;END;0\n",
     "EOF;0;0\n",
     "JUMP;START;0\n",
     "TABLE_INFO;BEGIN;0\n",
     "\n"}

\* a table of three instruction rows and the EOF row
ExampleFile ==
    <<"Instruction;Field 1;Field 2\n",
      "TABLE_INFO;START;0\n",
      "SIN_RAMP_TO;FROM_ACT;25.0\n",
      "TABLE_INFO;END;0\n",
      "EOF;0;0\n">>

\* a table of more rows than a page holds: 32 instruction rows and the EOF row
LongFile ==
    <<"Instruction;Field 1;Field 2\n", "TABLE_INFO;START;0\n">>
    \o [i \in 1..(MAX_LIST_SIZE - 2) |->
           IF i % 2 = 1 THEN "SIN_RAMP_TO;FROM_ACT;25.0\n" ELSE "WAIT;TIME;7\n"]
    \o <<"TABLE_INFO;END;0\n", "EOF;0;0\n">>

\* the files drawn: the empty one, each first line followed by up to n
\* later lines, the example and the long table
FilesUpTo(n) ==
    {<<>>, ExampleFile, LongFile}
    \cup {<<title>> \o rows : title \in TitleLines,
                              rows \in UNION {[1..k -> DataLines] : k \in 0..n}}

\* the status the device answers: 0 = Idle, 1 = Erasing or Writing,
\* 2 = New Data accepted, 3 = Error
DeviceStatus == 0..3

InitLut ==
    /\ QuerySetIdle
    /\ CodecOff
    /\ ConvertOff
    /\ PartsOff
    /\ lut_pc = "start"
    /\ lut_lines \in FilesUpTo(MaxRows)
    /\ lut_records = <<>>
    /\ lut_lists = <<>>
    /\ lut_page = 0
    /\ lut_timeout = 0
    /\ lut_pages_sent = {}
    /\ lut_analyze_sent = FALSE
    /\ lut_exc = "none"
    /\ lut_payload = <<>>
    /\ lut_sends = <<>>
    /\ lut_page_sends = 0
    /\ lut_analyze_sends = 0
    /\ lut_message = ""

\* download_lookup_table raises exc with the message
DownloadRaises(exc, message) ==
    /\ lut_pc' = "done"
    /\ lut_exc' = exc
    /\ lut_message' = message

\* the records a page refers to
PageRecords(records, page) == [j \in 1..Len(page) |-> records[page[j]]]

\* the references to the records of a list, one per place
References(records) == [i \in 1..Len(records) |-> i]

\* "index_of_list_ = lists.index(list_)" and _download_page up to its loop,
\* for the list at place k of lists: the payload of its tx_frame
EnterPage(records, lists, k) ==
    PagePayload(PageRecords(records, lists[k]), Index(lists, lists[k]))

\* download_lookup_table up to the first transaction: the file is parsed,
\* the CRC added, the list split, the payload of the first page built
DownloadStart ==
    LET parsed == _parse_lut_into_list(lut_lines)
        records == _add_crc_to_table(parsed.list_)
        lists == _split_list(References(records), MAX_LIST_SIZE)
    IN  /\ lut_pc = "start"
        /\ IF parsed.exc # "none"
           THEN /\ DownloadRaises(parsed.exc, "")
                /\ UNCHANGED <<lut_records, lut_lists, lut_page, lut_payload>>
           ELSE /\ lut_records' = records
                /\ lut_lists' = lists
                /\ lut_page' = IF lists = <<>> THEN 0 ELSE 1
                /\ lut_pc' = IF lists = <<>> THEN "analyze" ELSE "page"
                /\ lut_payload' = IF lists = <<>> THEN <<>> ELSE EnterPage(records, lists, 1)
                /\ UNCHANGED <<lut_exc, lut_message>>
        /\ UNCHANGED <<lut_lines, lut_timeout, lut_pages_sent, lut_analyze_sent,
                       lut_sends, lut_page_sends, lut_analyze_sends>>
        /\ UNCHANGED <<vars, codec_vars, conv_vars, part_vars>>

\* a loop that allows one more pass when timeout has reached 50
PageRetriedOnceMore(timeout) == timeout <= PAGE_TIMEOUT_LIMIT

\* _download_page: "timeout += 1; if timeout < 50: time.sleep(0.010)", else
\* raise LutException; timeout is the value after the increment
PageRetried(timeout) == timeout < PAGE_TIMEOUT_LIMIT

\* a loop that allows one more pass when timeout has reached 50
AnalyzeRetriedOnceMore(timeout) == timeout <= ANALYZE_TIMEOUT_LIMIT

\* _start_analyze_and_wait: "timeout += 1; if timeout < 50: time.sleep(0.010)",
\* else raise LutException; timeout is the value after the increment
AnalyzeRetried(timeout) == timeout < ANALYZE_TIMEOUT_LIMIT

\* the payload of the device's answer: the status as a UINT4
StatusPayload(status) == add_uint4(<<>>, status)

\* lut_sends after one more set() of the _download_page being run, the
\* device having accepted the page or not
Sent(accepted) ==
    LET offset == Index(lut_lists, lut_lists[lut_page])
        counted ==
            IF Len(lut_sends) < lut_page
            THEN Append(lut_sends, [offset |-> offset, payload |-> lut_payload,
                                    same |-> TRUE, accepted |-> FALSE])
            ELSE [lut_sends EXCEPT
                    ![lut_page].same = @ /\ lut_payload = lut_sends[lut_page].payload]
    IN  [counted EXCEPT ![lut_page].accepted = accepted]

\* one pass of the loop of _download_page: the page is sent with set() and
\* the device answers status
DownloadPage(status) ==
    /\ lut_pc = "page"
    /\ lut_pages_sent' = lut_pages_sent \cup {Index(lut_lists, lut_lists[lut_page])}
    /\ IF ReadUint4Exception(StatusPayload(status)) # "none"
       THEN /\ DownloadRaises(ReadUint4Exception(StatusPayload(status)), "")
            /\ lut_sends' = Sent(FALSE)
            /\ lut_page_sends' = lut_page_sends + 1
            /\ UNCHANGED <<lut_page, lut_timeout, lut_payload>>
       ELSE IF read_uint4(StatusPayload(status)) # LUT_FLASH_STATUS_DATA_ACCEPTED
       THEN /\ lut_timeout' = lut_timeout + 1
            /\ lut_sends' = Sent(FALSE)
            /\ lut_page_sends' = lut_page_sends + 1
            /\ IF PageRetried(lut_timeout')
               THEN UNCHANGED <<lut_pc, lut_exc, lut_message>>       \* time.sleep(0.010)
               ELSE DownloadRaises("LutException", "Device Busy while sending Lookup Table")
            /\ UNCHANGED <<lut_page, lut_payload>>
       ELSE /\ lut_timeout' = 0
            /\ lut_sends' = Sent(TRUE)
            /\ lut_page_sends' = 0                 \* _download_page returns
            /\ IF lut_page < Len(lut_lists)
               THEN /\ lut_page' = lut_page + 1
                    /\ lut_payload' = EnterPage(lut_records, lut_lists, lut_page + 1)
                    /\ UNCHANGED lut_pc
               ELSE /\ lut_pc' = "analyze"
                    /\ UNCHANGED <<lut_page, lut_payload>>
            /\ UNCHANGED <<lut_exc, lut_message>>
    /\ UNCHANGED <<lut_lines, lut_records, lut_lists, lut_analyze_sent, lut_analyze_sends>>
    /\ UNCHANGED <<vars, codec_vars, conv_vars, part_vars>>

\* the same pass when set() raises GeneralException
DownloadPageFails ==
    /\ lut_pc = "page"
    /\ lut_pages_sent' = lut_pages_sent \cup {Index(lut_lists, lut_lists[lut_page])}
    /\ lut_sends' = Sent(FALSE)
    /\ lut_page_sends' = lut_page_sends + 1
    /\ DownloadRaises("GeneralException", "")
    /\ UNCHANGED <<lut_lines, lut_records, lut_lists, lut_page, lut_timeout,
                   lut_analyze_sent, lut_payload, lut_analyze_sends>>
    /\ UNCHANGED <<vars, codec_vars, conv_vars, part_vars>>

\* one pass of the loop of _start_analyze_and_wait: start_analyze_lut builds
\* the frame, sends the query and the device answers status
StartAnalyze(status) ==
    /\ lut_pc = "analyze"
    /\ lut_analyze_sent' = TRUE
    /\ lut_analyze_sends' = lut_analyze_sends + 1
    /\ lut_payload' = AnalyzePayload
    /\ IF ReadUint4Exception(StatusPayload(status)) # "none"
       THEN /\ DownloadRaises(ReadUint4Exception(StatusPayload(status)), "")
            /\ UNCHANGED lut_timeout
       ELSE IF read_uint4(StatusPayload(status)) # LUT_FLASH_STATUS_IDLE
       THEN /\ lut_timeout' = lut_timeout + 1
            /\ IF AnalyzeRetried(lut_timeout')
               THEN UNCHANGED <<lut_pc, lut_exc, lut_message>>       \* time.sleep(0.010)
               ELSE DownloadRaises("LutException",
                                   "Device Busy while trying to analyze Lookup Table")
       ELSE /\ lut_pc' = "done"
            /\ UNCHANGED <<lut_timeout, lut_exc, lut_message>>
    /\ UNCHANGED <<lut_lines, lut_records, lut_lists, lut_page, lut_pages_sent, lut_sends,
                   lut_page_sends>>
    /\ UNCHANGED <<vars, codec_vars, conv_vars, part_vars>>

\* the same pass when query() raises GeneralException
StartAnalyzeFails ==
    /\ lut_pc = "analyze"
    /\ lut_analyze_sent' = TRUE
    /\ lut_analyze_sends' = lut_analyze_sends + 1
    /\ lut_payload' = AnalyzePayload
    /\ DownloadRaises("GeneralException", "")
    /\ UNCHANGED <<lut_lines, lut_records, lut_lists, lut_page, lut_timeout,
                   lut_pages_sent, lut_sends, lut_page_sends>>
    /\ UNCHANGED <<vars, codec_vars, conv_vars, part_vars>>

NextLut ==
    \/ DownloadStart
    \/ \E status \in DeviceStatus : DownloadPage(status)
    \/ DownloadPageFails
    \/ \E status \in DeviceStatus : StartAnalyze(status)
    \/ StartAnalyzeFails

SpecLut == InitLut /\ [][NextLut]_<<vars, other_vars>>

(***************************************************************************)
(* LutCmd._split_list taken alone.                                         *)
(***************************************************************************)
\* longest list given to _split_list
MaxListLen == 66

\* largest max_list_size given to _split_list
MaxPageSize == 33

\* a list of count records, each a LutRecord of its own
RecordList(count) == [i \in 1..count |-> field1_setter(LutRecord, i)]

InitSplit ==
    /\ QuerySetIdle
    /\ CodecOff
    /\ ConvertOff
    /\ LutOff
    /\ EnumerateOff
    /\ ThreadsOff
    /\ PollOff
    /\ FieldOff
    /\ RecordOff
    /\ DraftOff
    /\ PhyOff
    /\ split_pc = "new"
    /\ \E count \in 0..MaxListLen : split_list = RecordList(count)
    /\ split_size \in 1..MaxPageSize
    /\ split_pages = <<>>

\* lists = self._split_list(list_input, max_list_size)
SplitList ==
    /\ split_pc = "new"
    /\ split_pages' = _split_list(split_list, split_size)
    /\ split_pc' = "split"
    /\ UNCHANGED <<split_list, split_size>>
    /\ UNCHANGED <<vars, codec_vars, conv_vars, lut_vars, rec_vars, draft_vars, phy_vars, fld_vars, poll_vars, thr_vars, enum_vars>>

NextSplit == SplitList

SpecSplit == InitSplit /\ [][NextSplit]_<<vars, other_vars>>

(***************************************************************************)
(* LutRecord taken alone.                                                  *)
(***************************************************************************)
\* instructions given to the setter: values of a byte
RecordInstructions == {LUT_TABLE_INFO_INSTR, LUT_SET_FLOAT_INSTR, LUT_EOF_INSTR, 255}

\* values given to the field1 setter: one, two and three bytes, the largest
\* 24 bit value and the 16_777_216 that SET_FLOAT and SET_INT rows may carry
RecordField1Values == {0, 1, 256, 66051, 16777215, 16777216}

\* integers given to the field2_int setter, the last two wider than 32 bits
RecordField2Ints ==
    {NumOf(0), NumOf(7), NumOf(2147483647), <<255, 255, 255, 255>>,
     <<1, 2, 3, 4, 5>>, <<89, 187, 4, 105, 131, 58, 70, 196, 181, 0, 79, 252>>}

\* texts whose float() is given to the field2_float setter
RecordField2Floats == {"1.5", "25.0"}

InitRecord ==
    /\ QuerySetIdle
    /\ CodecOff
    /\ ConvertOff
    /\ LutOff
    /\ EnumerateOff
    /\ ThreadsOff
    /\ PollOff
    /\ FieldOff
    /\ SplitOff
    /\ DraftOff
    /\ PhyOff
    /\ rec_pc = "set"
    /\ rec_record = LutRecord
    /\ rec_instruction = 0
    /\ rec_field1 = 0
    /\ rec_field2 = <<>>
    /\ rec_bytes = <<>>

\* record.instruction = new_value
RecordSetInstruction(new_value) ==
    /\ rec_pc \in {"set", "read"}
    /\ rec_record' = instruction_setter(rec_record, new_value)
    /\ rec_instruction' = new_value
    /\ rec_pc' = "set"
    /\ UNCHANGED <<rec_field1, rec_field2, rec_bytes>>
    /\ UNCHANGED <<vars, codec_vars, conv_vars, lut_vars, split_vars, draft_vars, phy_vars, fld_vars, poll_vars, thr_vars, enum_vars>>

\* record.field1 = new_value
RecordSetField1(new_value) ==
    /\ rec_pc \in {"set", "read"}
    /\ rec_record' = field1_setter(rec_record, new_value)
    /\ rec_field1' = new_value
    /\ rec_pc' = "set"
    /\ UNCHANGED <<rec_instruction, rec_field2, rec_bytes>>
    /\ UNCHANGED <<vars, codec_vars, conv_vars, lut_vars, split_vars, draft_vars, phy_vars, fld_vars, poll_vars, thr_vars, enum_vars>>

\* record.field2_int = new_value
RecordSetField2Int(new_value) ==
    /\ rec_pc \in {"set", "read"}
    /\ rec_record' = field2_int_setter(rec_record, new_value)
    /\ rec_field2' = new_value
    /\ rec_pc' = "set"
    /\ UNCHANGED <<rec_instruction, rec_field1, rec_bytes>>
    /\ UNCHANGED <<vars, codec_vars, conv_vars, lut_vars, split_vars, draft_vars, phy_vars, fld_vars, poll_vars, thr_vars, enum_vars>>

\* record.field2_float = float(text)
RecordSetField2Float(text) ==
    /\ rec_pc \in {"set", "read"}
    /\ rec_record' = field2_float_setter(rec_record, PackFloat[text])
    /\ rec_field2' = Normalize(PackFloat[text])
    /\ rec_pc' = "set"
    /\ UNCHANGED <<rec_instruction, rec_field1, rec_bytes>>
    /\ UNCHANGED <<vars, codec_vars, conv_vars, lut_vars, split_vars, draft_vars, phy_vars, fld_vars, poll_vars, thr_vars, enum_vars>>

\* record.get_bytes()
RecordGetBytes ==
    /\ rec_pc = "set"
    /\ rec_bytes' = get_bytes(rec_record)
    /\ rec_pc' = "read"
    /\ UNCHANGED <<rec_record, rec_instruction, rec_field1, rec_field2>>
    /\ UNCHANGED <<vars, codec_vars, conv_vars, lut_vars, split_vars, draft_vars, phy_vars, fld_vars, poll_vars, thr_vars, enum_vars>>

NextRecord ==
    \/ \E new_value \in RecordInstructions : RecordSetInstruction(new_value)
    \/ \E new_value \in RecordField1Values : RecordSetField1(new_value)
    \/ \E new_value \in RecordField2Ints : RecordSetField2Int(new_value)
    \/ \E text \in RecordField2Floats : RecordSetField2Float(text)
    \/ RecordGetBytes

SpecRecord == InitRecord /\ [][NextRecord]_<<vars, other_vars>>

(***************************************************************************)
(* LutRecord taken alone, with the setters of the three bytes of field 1.  *)
(***************************************************************************)
\* values given to the field1b0, field1b1 and field1b2 setters
RecordByteValues == {0, 255}

\* the values given to the other setters here
ByteSpecInstructions == {LUT_SIN_RAMP_TO_INSTR, LUT_EOF_INSTR}
ByteSpecField1Values == {66051}
ByteSpecField2Ints == {NumOf(7), <<1, 2, 3, 4, 5>>}
ByteSpecField2Floats == {"1.5"}

\* record.field1b0 = new_value
RecordSetField1b0(new_value) ==
    /\ rec_pc \in {"set", "read"}
    /\ rec_record' = field1b0_setter(rec_record, new_value)
    /\ rec_field1' = rec_record'.field1
    /\ rec_pc' = "set"
    /\ UNCHANGED <<rec_instruction, rec_field2, rec_bytes>>
    /\ UNCHANGED <<vars, codec_vars, conv_vars, lut_vars, split_vars, draft_vars, phy_vars, fld_vars, poll_vars, thr_vars, enum_vars>>

\* record.field1b1 = new_value
RecordSetField1b1(new_value) ==
    /\ rec_pc \in {"set", "read"}
    /\ rec_record' = field1b1_setter(rec_record, new_value)
    /\ rec_field1' = rec_record'.field1
    /\ rec_pc' = "set"
    /\ UNCHANGED <<rec_instruction, rec_field2, rec_bytes>>
    /\ UNCHANGED <<vars, codec_vars, conv_vars, lut_vars, split_vars, draft_vars, phy_vars, fld_vars, poll_vars, thr_vars, enum_vars>>

\* record.field1b2 = new_value
RecordSetField1b2(new_value) ==
    /\ rec_pc \in {"set", "read"}
    /\ rec_record' = field1b2_setter(rec_record, new_value)
    /\ rec_field1' = rec_record'.field1
    /\ rec_pc' = "set"
    /\ UNCHANGED <<rec_instruction, rec_field2, rec_bytes>>
    /\ UNCHANGED <<vars, codec_vars, conv_vars, lut_vars, split_vars, draft_vars, phy_vars, fld_vars, poll_vars, thr_vars, enum_vars>>

NextRecordBytes ==
    \/ \E new_value \in ByteSpecInstructions : RecordSetInstruction(new_value)
    \/ \E new_value \in ByteSpecField1Values : RecordSetField1(new_value)
    \/ \E new_value \in RecordByteValues : RecordSetField1b0(new_value)
    \/ \E new_value \in RecordByteValues : RecordSetField1b1(new_value)
    \/ \E new_value \in RecordByteValues : RecordSetField1b2(new_value)
    \/ \E new_value \in ByteSpecField2Ints : RecordSetField2Int(new_value)
    \/ \E text \in ByteSpecField2Floats : RecordSetField2Float(text)

SpecRecordBytes == InitRecord /\ [][NextRecordBytes]_<<vars, other_vars>>

(***************************************************************************)
(* download_lookup_table of src/mecom_tec/lookup_table/lut_cmd.py: the     *)
(* loops of _download_page and _start_analyze_and_wait.                    *)
(***************************************************************************)
\* most passes of one loop that a behaviour follows
MaxDraftPasses == 60

\* most pages of a table
MaxDraftLists == 2

\* if timeout < 50, in both loops
DRAFT_TIMEOUT_LIMIT == 50

InitDraft ==
    /\ QuerySetIdle
    /\ CodecOff
    /\ ConvertOff
    /\ LutOff
    /\ EnumerateOff
    /\ ThreadsOff
    /\ PollOff
    /\ FieldOff
    /\ SplitOff
    /\ RecordOff
    /\ PhyOff
    /\ draft_lists \in 0..MaxDraftLists
    /\ draft_pc = IF draft_lists = 0 THEN "analyze" ELSE "enter"
    /\ draft_page = IF draft_lists = 0 THEN 0 ELSE 1
    /\ draft_status = 0
    /\ draft_timeout = 0
    /\ draft_page_sends = 0
    /\ draft_analyze_sends = 0
    /\ draft_exc = "none"

\* _download_page up to its loop: "lt = self.mecom.program_lut(...)", the
\* device answering status, then "timeout: int = 0"
DraftProgramLut(status) ==
    /\ draft_pc = "enter"
    /\ draft_status' = status
    /\ draft_page_sends' = 1
    /\ draft_timeout' = 0
    /\ draft_pc' = "page"
    /\ UNCHANGED <<draft_lists, draft_page, draft_analyze_sends, draft_exc>>
    /\ UNCHANGED <<vars, codec_vars, conv_vars, lut_vars, split_vars, rec_vars, phy_vars, fld_vars, poll_vars, thr_vars, enum_vars>>

\* one pass of the loop of _download_page: "status = lt.RESPONSE.PAYLOAD";
\* when it is not 2, timeout += 1 and either time.sleep(0.010) or the
\* statement "LutException(...)", which builds the exception and raises
\* nothing; when it is 2, break
DraftPagePass ==
    /\ draft_pc = "page"
    /\ IF draft_status # LUT_FLASH_STATUS_DATA_ACCEPTED
       THEN /\ draft_timeout < MaxDraftPasses
            /\ draft_timeout' = draft_timeout + 1
            /\ UNCHANGED <<draft_pc, draft_page, draft_page_sends>>
       ELSE /\ draft_timeout' = 0
            /\ draft_page_sends' = 0
            /\ IF draft_page < draft_lists
               THEN /\ draft_page' = draft_page + 1
                    /\ draft_pc' = "enter"
               ELSE /\ draft_pc' = "analyze"
                    /\ UNCHANGED draft_page
    /\ UNCHANGED <<draft_lists, draft_status, draft_analyze_sends, draft_exc>>
    /\ UNCHANGED <<vars, codec_vars, conv_vars, lut_vars, split_vars, rec_vars, phy_vars, fld_vars, poll_vars, thr_vars, enum_vars>>

\* one pass of the loop of _start_analyze_and_wait: start_analyze_lut calls
\* do_analyze_lut and the device answers status; when it is not 0,
\* timeout += 1 and either time.sleep(0.010) or the statement
\* "LutException(...)", which raises nothing; when it is 0, break
DraftStartAnalyze(status) ==
    /\ draft_pc = "analyze"
    /\ draft_analyze_sends < MaxDraftPasses
    /\ draft_analyze_sends' = draft_analyze_sends + 1
    /\ IF status # LUT_FLASH_STATUS_IDLE
       THEN /\ draft_timeout' = draft_timeout + 1
            /\ UNCHANGED draft_pc
       ELSE /\ draft_pc' = "done"
            /\ UNCHANGED draft_timeout
    /\ UNCHANGED <<draft_lists, draft_page, draft_status, draft_page_sends, draft_exc>>
    /\ UNCHANGED <<vars, codec_vars, conv_vars, lut_vars, split_vars, rec_vars, phy_vars, fld_vars, poll_vars, thr_vars, enum_vars>>

NextDraft ==
    \/ \E status \in DeviceStatus : DraftProgramLut(status)
    \/ DraftPagePass
    \/ \E status \in DeviceStatus : DraftStartAnalyze(status)

SpecDraft == InitDraft /\ [][NextDraft]_<<vars, other_vars>>

(***************************************************************************)
(* MeComPhySerialPort.get_data_or_timeout: the bytes are read one at a     *)
(* time with _read until the carriage return.                              *)
(***************************************************************************)
\* most bytes that arrive before the read timeout
MaxWireLen == 4

\* cr = "\r".encode()
CR == "\r"

WireChars == {"!", "0", "A", CR}

WiresUpTo(n) == UNION {[1..k -> WireChars] : k \in 0..n}

\* the handlers of get_data_or_timeout: SerialTimeoutException becomes
\* MeComPhyTimeoutException, every other Exception (ResponseTimeout and
\* SerialException among them) MeComPhyInterfaceException
PhyRaised(exc) ==
    IF exc = "SerialTimeoutException"
    THEN "MeComPhyTimeoutException"
    ELSE "MeComPhyInterfaceException"

InitPhy ==
    /\ QuerySetIdle
    /\ CodecOff
    /\ ConvertOff
    /\ LutOff
    /\ EnumerateOff
    /\ ThreadsOff
    /\ PollOff
    /\ FieldOff
    /\ SplitOff
    /\ RecordOff
    /\ DraftOff
    /\ phy_pc = "read"
    /\ phy_wire \in WiresUpTo(MaxWireLen)
    /\ phy_frame = <<>>
    /\ phy_short = FALSE
    /\ phy_exc = "none"
    /\ phy_result = <<>>

\* _read(size=1) when a byte arrives in time: the carriage return ends the
\* loop and response_frame is returned, any other byte is added to it
PhyReadByte ==
    /\ phy_pc = "read"
    /\ phy_wire # <<>>
    /\ phy_wire' = Tail(phy_wire)
    /\ IF Head(phy_wire) = CR
       THEN /\ phy_pc' = "done"
            /\ phy_result' = phy_frame
            /\ UNCHANGED phy_frame
       ELSE /\ phy_frame' = Append(phy_frame, Head(phy_wire))
            /\ UNCHANGED <<phy_pc, phy_result>>
    /\ UNCHANGED <<phy_short, phy_exc>>
    /\ UNCHANGED <<vars, codec_vars, conv_vars, lut_vars, split_vars, rec_vars, draft_vars, fld_vars, poll_vars, thr_vars, enum_vars>>

\* _read(size=1) when no byte arrives before the read timeout: ser.read
\* returns b'', len(recv) < size and _read raises ResponseTimeout
PhyReadShort ==
    /\ phy_pc = "read"
    /\ phy_wire = <<>>
    /\ phy_short' = TRUE
    /\ phy_exc' = PhyRaised("ResponseTimeout")
    /\ phy_pc' = "done"
    /\ UNCHANGED <<phy_wire, phy_frame, phy_result>>
    /\ UNCHANGED <<vars, codec_vars, conv_vars, lut_vars, split_vars, rec_vars, draft_vars, fld_vars, poll_vars, thr_vars, enum_vars>>

\* _read(size=1) when ser.read raises SerialException (the port failed)
PhyReadFails ==
    /\ phy_pc = "read"
    /\ phy_exc' = PhyRaised("SerialException")
    /\ phy_pc' = "done"
    /\ UNCHANGED <<phy_wire, phy_frame, phy_short, phy_result>>
    /\ UNCHANGED <<vars, codec_vars, conv_vars, lut_vars, split_vars, rec_vars, draft_vars, fld_vars, poll_vars, thr_vars, enum_vars>>

NextPhy ==
    \/ PhyReadByte
    \/ PhyReadShort
    \/ PhyReadFails

SpecPhy == InitPhy /\ [][NextPhy]_<<vars, other_vars>>

(***************************************************************************)
(* MeComVarConvert: add_int32 with read_int32, add_uint4 with read_uint4.  *)
(***************************************************************************)
FieldKinds == {"int32", "uint4"}

\* the values drawn: signed 32 bit values of both signs around the changes
\* in the number of hex digits, and every nibble
FieldValues(kind) ==
    IF kind = "int32"
    THEN {-2147483647, -65536, -256, -16, -1, 0, 1, 255, 65536, 2147483647}
    ELSE 0..15

\* the streams a value is appended to
FieldStreams == {<<>>, <<"V", "S">>, <<"?", "L", "T">>}

InitField ==
    /\ QuerySetIdle
    /\ CodecOff
    /\ ConvertOff
    /\ LutOff
    /\ EnumerateOff
    /\ ThreadsOff
    /\ PollOff
    /\ SplitOff
    /\ RecordOff
    /\ DraftOff
    /\ PhyOff
    /\ fld_pc = "new"
    /\ fld_kind \in FieldKinds
    /\ fld_value \in FieldValues(fld_kind)
    /\ fld_before \in FieldStreams
    /\ fld_stream = <<>>
    /\ fld_read = [exc |-> "none", value |-> 0]

\* stream = add_int32(stream, value) or stream = add_uint4(stream, value)
FieldAdd ==
    /\ fld_pc = "new"
    /\ fld_stream' = IF fld_kind = "int32"
                      THEN add_int32(fld_before, fld_value)
                      ELSE add_uint4(fld_before, fld_value)
    /\ fld_pc' = "added"
    /\ UNCHANGED <<fld_kind, fld_value, fld_before, fld_read>>
    /\ UNCHANGED <<vars, codec_vars, conv_vars, lut_vars, split_vars, rec_vars, draft_vars, phy_vars, poll_vars, thr_vars, enum_vars>>

\* the field just written
FieldAppended == Slice(fld_stream, Len(fld_before), Len(fld_stream))

\* read_int32(field) or read_uint4(field) for the field just written
FieldRead ==
    /\ fld_pc = "added"
    /\ fld_read' = LET exc == IF fld_kind = "int32"
                               THEN UnpackException(FieldAppended, 4)
                               ELSE ReadUint4Exception(FieldAppended)
                   IN  [exc |-> exc,
                        value |-> IF exc # "none" THEN 0
                                  ELSE IF fld_kind = "int32"
                                       THEN read_int32(FieldAppended)
                                       ELSE read_uint4(FieldAppended)]
    /\ fld_pc' = "read"
    /\ UNCHANGED <<fld_kind, fld_value, fld_before, fld_stream>>
    /\ UNCHANGED <<vars, codec_vars, conv_vars, lut_vars, split_vars, rec_vars, draft_vars, phy_vars, poll_vars, thr_vars, enum_vars>>

NextField ==
    \/ FieldAdd
    \/ FieldRead

SpecField == InitField /\ [][NextField]_<<vars, other_vars>>

(***************************************************************************)
(* MeerstetterTEC.download_lookup_table                                    *)
(***************************************************************************)
\* class LutStatus(Enum)
LUT_STATUS_NO_INIT == 0
LUT_STATUS_ANALYZING == 2
LUT_STATUS_SUB_NOT_FOUND == 6

\* if timeout < 50, in the wait loop of download_lookup_table
STATUS_TIMEOUT_LIMIT == 50

\* the values of parameter 52002 a device returns: the members of LutStatus
\* and a number that is no member
StatusValues == LUT_STATUS_NO_INIT..(LUT_STATUS_SUB_NOT_FOUND + 1)

\* LutStatus(status) raises no ValueError
IsLutStatus(status) == status \in LUT_STATUS_NO_INIT..LUT_STATUS_SUB_NOT_FOUND

\* a loop that waits once more before it gives up
StatusAwaitedOnceMore(timeout) == timeout <= STATUS_TIMEOUT_LIMIT

\* if timeout < 50: time.sleep(0.010), else raise LutException
StatusAwaited(timeout) == timeout < STATUS_TIMEOUT_LIMIT

\* download_lookup_table ends with exception exc
FacadeRaises(exc, message) ==
    /\ poll_pc' = "done"
    /\ poll_exc' = exc
    /\ poll_message' = message

InitPoll ==
    /\ QuerySetIdle
    /\ CodecOff
    /\ ConvertOff
    /\ LutOff
    /\ EnumerateOff
    /\ ThreadsOff
    /\ SplitOff
    /\ RecordOff
    /\ DraftOff
    /\ PhyOff
    /\ FieldOff
    /\ poll_pc = "upload"
    /\ poll_timeout = 0
    /\ poll_polls = 0
    /\ poll_status = NONE
    /\ poll_exc = "none"
    /\ poll_message = ""

\* self.mecom_lut_cmd.download_lookup_table(...) returns, then timeout = 0
FacadeUpload ==
    /\ poll_pc = "upload"
    /\ poll_pc' = "wait"
    /\ poll_timeout' = 0
    /\ UNCHANGED <<poll_polls, poll_status, poll_exc, poll_message>>
    /\ UNCHANGED <<vars, codec_vars, conv_vars, lut_vars, split_vars, rec_vars, draft_vars, phy_vars, fld_vars, thr_vars, enum_vars>>

\* self.mecom_lut_cmd.download_lookup_table(...) raises LutException: the
\* except clause wraps it
FacadeUploadFails ==
    /\ poll_pc = "upload"
    /\ FacadeRaises("LutException", "Error while trying to download lookup table")
    /\ UNCHANGED <<poll_timeout, poll_polls, poll_status>>
    /\ UNCHANGED <<vars, codec_vars, conv_vars, lut_vars, split_vars, rec_vars, draft_vars, phy_vars, fld_vars, thr_vars, enum_vars>>

\* one pass of the while loop: get_status returns LutStatus(status) or raises
\* ValueError; NO_INIT and ANALYZING count a timeout, which sleeps or raises
\* LutException; any other status breaks
FacadePoll(status) ==
    /\ poll_pc = "wait"
    /\ poll_polls' = poll_polls + 1
    /\ IF ~IsLutStatus(status)
       THEN /\ FacadeRaises("ValueError", "")
            /\ UNCHANGED <<poll_timeout, poll_status>>
       ELSE /\ poll_status' = status
            /\ IF status = LUT_STATUS_NO_INIT \/ status = LUT_STATUS_ANALYZING
               THEN /\ poll_timeout' = poll_timeout + 1
                    /\ IF StatusAwaited(poll_timeout')
                       THEN UNCHANGED <<poll_pc, poll_exc, poll_message>>
                       ELSE FacadeRaises("LutException",
                                         "Timeout while trying to get Lookup Table status!")
               ELSE /\ poll_pc' = "last"
                    /\ UNCHANGED <<poll_timeout, poll_exc, poll_message>>
    /\ UNCHANGED <<vars, codec_vars, conv_vars, lut_vars, split_vars, rec_vars, draft_vars, phy_vars, fld_vars, thr_vars, enum_vars>>

\* get_status in the loop raises ComCommandException (get_int32_value failed)
FacadePollFails ==
    /\ poll_pc = "wait"
    /\ poll_polls' = poll_polls + 1
    /\ FacadeRaises("ComCommandException", "Get INT32 Value failed")
    /\ UNCHANGED <<poll_timeout, poll_status>>
    /\ UNCHANGED <<vars, codec_vars, conv_vars, lut_vars, split_vars, rec_vars, draft_vars, phy_vars, fld_vars, thr_vars, enum_vars>>

\* after the loop: lut_table_status = get_status(...), logged, then return
FacadeLastStatus(status) ==
    /\ poll_pc = "last"
    /\ IF IsLutStatus(status)
       THEN /\ poll_pc' = "done"
            /\ UNCHANGED <<poll_exc, poll_message>>
       ELSE FacadeRaises("ValueError", "")
    /\ UNCHANGED <<poll_timeout, poll_polls, poll_status>>
    /\ UNCHANGED <<vars, codec_vars, conv_vars, lut_vars, split_vars, rec_vars, draft_vars, phy_vars, fld_vars, thr_vars, enum_vars>>

NextPoll ==
    \/ FacadeUpload
    \/ FacadeUploadFails
    \/ \E status \in StatusValues : FacadePoll(status)
    \/ FacadePollFails
    \/ \E status \in StatusValues : FacadeLastStatus(status)

SpecPoll == InitPoll /\ [][NextPoll]_<<vars, other_vars>>

(***************************************************************************)
(* local_query/local_set run by two threads at once, without a lock: each  *)
(* action is one step between which the interpreter may switch threads.    *)
(***************************************************************************)
InitThreads ==
    /\ QuerySetIdle
    /\ CodecOff
    /\ ConvertOff
    /\ LutOff
    /\ EnumerateOff
    /\ SplitOff
    /\ RecordOff
    /\ DraftOff
    /\ PhyOff
    /\ FieldOff
    /\ PollOff
    /\ thr_sequence_number \in InitialSequenceNumbers
    /\ thr_pc = [t \in ThreadIds |-> "call"]
    /\ thr_loaded = [t \in ThreadIds |-> 0]
    /\ thr_trials_left = [t \in ThreadIds |-> 0]
    /\ thr_sent = [t \in ThreadIds |-> <<>>]

\* "self.sequence_number += 1", first half: the attribute is read
ThreadLoad(t) ==
    /\ thr_pc[t] = "call"
    /\ thr_loaded' = [thr_loaded EXCEPT ![t] = thr_sequence_number]
    /\ thr_pc' = [thr_pc EXCEPT ![t] = "loaded"]
    /\ UNCHANGED <<thr_sequence_number, thr_trials_left, thr_sent>>
    /\ UNCHANGED <<vars, codec_vars, conv_vars, lut_vars, split_vars, rec_vars, draft_vars, phy_vars, fld_vars, poll_vars, enum_vars>>

\* "self.sequence_number += 1", second half: the sum is stored; then
\* trials_left = 3
ThreadStore(t) ==
    /\ thr_pc[t] = "loaded"
    /\ thr_sequence_number' = NextSequenceNumber(thr_loaded[t])
    /\ thr_trials_left' = [thr_trials_left EXCEPT ![t] = TRIALS]
    /\ thr_pc' = [thr_pc EXCEPT ![t] = "send"]
    /\ UNCHANGED <<thr_loaded, thr_sent>>
    /\ UNCHANGED <<vars, codec_vars, conv_vars, lut_vars, split_vars, rec_vars, draft_vars, phy_vars, fld_vars, poll_vars, enum_vars>>

\* one pass of the loop up to the receive: trials_left -= 1,
\* tx_frame.sequence_number = self.sequence_number, send_frame(tx_frame)
ThreadSendFrame(t) ==
    /\ thr_pc[t] = "send"
    /\ thr_trials_left[t] > 0
    /\ thr_trials_left' = [thr_trials_left EXCEPT ![t] = @ - 1]
    /\ thr_sent' = [thr_sent EXCEPT ![t] = Append(@, thr_sequence_number)]
    /\ thr_pc' = [thr_pc EXCEPT ![t] = "receive"]
    /\ UNCHANGED <<thr_sequence_number, thr_loaded>>
    /\ UNCHANGED <<vars, codec_vars, conv_vars, lut_vars, split_vars, rec_vars, draft_vars, phy_vars, fld_vars, poll_vars, enum_vars>>

\* receive_frame_or_timeout raises MeComPhyTimeoutException: the next pass
\* while trials are left, else GeneralException
ThreadReceiveTimeout(t) ==
    /\ thr_pc[t] = "receive"
    /\ thr_pc' = [thr_pc EXCEPT ![t] = IF TimeoutIsFinal(thr_trials_left[t])
                                       THEN "done" ELSE "send"]
    /\ UNCHANGED <<thr_sequence_number, thr_loaded, thr_trials_left, thr_sent>>
    /\ UNCHANGED <<vars, codec_vars, conv_vars, lut_vars, split_vars, rec_vars, draft_vars, phy_vars, fld_vars, poll_vars, enum_vars>>

\* receive_frame_or_timeout returns a frame: return rx_frame
ThreadReceiveLine(t) ==
    /\ thr_pc[t] = "receive"
    /\ thr_pc' = [thr_pc EXCEPT ![t] = "done"]
    /\ UNCHANGED <<thr_sequence_number, thr_loaded, thr_trials_left, thr_sent>>
    /\ UNCHANGED <<vars, codec_vars, conv_vars, lut_vars, split_vars, rec_vars, draft_vars, phy_vars, fld_vars, poll_vars, enum_vars>>

NextThreads ==
    \/ \E t \in ThreadIds : ThreadLoad(t)
    \/ \E t \in ThreadIds : ThreadStore(t)
    \/ \E t \in ThreadIds : ThreadSendFrame(t)
    \/ \E t \in ThreadIds : ThreadReceiveTimeout(t)
    \/ \E t \in ThreadIds : ThreadReceiveLine(t)

SpecThreads == InitThreads /\ [][NextThreads]_<<vars, other_vars>>

(***************************************************************************)
(* LutCmd._enumerate_lut on LIN_RAMP_TIME rows.                            *)
(***************************************************************************)
\* Field 1 of the rows drawn: ramp times below, at the ends of, inside and
\* above the range 10..16_777_216
RampTimes == {"0", "9", "10", "11", "12", "255", "256", "65535", "65536",
              "16777215", "16777216", "16777217"}

\* Field 2 of the rows drawn, as the last field of a line read from the file
RampTargets == {"0", "1", "1.5", "25.0", "0\n", "1\n", "1.5\n", "25.0\n"}

InitEnumerate ==
    /\ QuerySetIdle
    /\ CodecOff
    /\ ConvertOff
    /\ LutOff
    /\ SplitOff
    /\ RecordOff
    /\ DraftOff
    /\ PhyOff
    /\ FieldOff
    /\ PollOff
    /\ ThreadsOff
    /\ enum_pc = "new"
    /\ enum_field1 \in RampTimes
    /\ enum_field2 \in RampTargets
    /\ enum_line = "LIN_RAMP_TIME;" \o enum_field1 \o ";" \o enum_field2
    /\ enum_result = [exc |-> "none", record |-> LutRecord]

\* record = self._enumerate_lut(line=line, line_count=line_count)
EnumerateLine ==
    /\ enum_pc = "new"
    /\ enum_result' = _enumerate_lut(enum_line)
    /\ enum_pc' = "done"
    /\ UNCHANGED <<enum_field1, enum_field2, enum_line>>
    /\ UNCHANGED <<vars, codec_vars, conv_vars, lut_vars, split_vars, rec_vars, draft_vars, phy_vars, fld_vars, poll_vars, thr_vars>>

NextEnumerate == EnumerateLine

SpecEnumerate == InitEnumerate /\ [][NextEnumerate]_<<vars, other_vars>>

(***************************************************************************)
(* Properties of the transaction layer and the frame codec.                *)
(***************************************************************************)
InCall == pc \in {"send", "receive", "done"}

Last(seq) == seq[Len(seq)]

\* every receive of the call so far timed out
OnlyTimeouts == \A i \in 1..Len(rx_log) : rx_log[i] = "timeout"

\* the last four characters of a stream: its CRC field
CrcField(stream) == SubSeq(stream, Len(stream) - 3, Len(stream))

\* C1: when every receive times out and every send is accepted, a query or a
\* set to an address other than 255 ends with GeneralException after exactly
\* 3 sends and 3 receives; before the third receive timed out the call has
\* not failed, and it never sends a fourth time.
C1_TimeoutsFailAfterThreeSends ==
    (InCall /\ tx_frame.address # 255 /\ ~send_failed /\ OnlyTimeouts)
    => /\ Len(tx_log) <= 3
       /\ pc = "done" => /\ result.kind = "GeneralException"
                         /\ result.message = "Timeout"
                         /\ Len(tx_log) = 3
                         /\ Len(rx_log) = 3
       /\ pc # "done" => result.kind = "none"
       /\ Len(rx_log) = 3 => pc = "done"

C1_Witness ==
    /\ pc = "done"
    /\ op = "query"
    /\ tx_frame.address = 2
    /\ rx_log = <<"timeout", "timeout", "timeout">>
    /\ result.kind = "GeneralException"
    /\ Len(tx_log) = 3

\* C2: a call whose frame address is 255 never receives; it makes one send
\* and, the transport having accepted that send, returns the empty packet to
\* the caller without an exception.
C2_BroadcastOneSendNoReceive ==
    (InCall /\ tx_frame.address = 255)
    => /\ rx_log = <<>>
       /\ pc # "receive"
       /\ Len(tx_seqs) <= 1
       /\ pc = "done" => Len(tx_seqs) = 1
       /\ (pc = "done" /\ ~send_failed)
          => /\ Len(tx_log) = 1
             /\ result.kind = "none"
             /\ result.frame.receive_type = "EMPTY"

C2_Witness ==
    /\ pc = "done"
    /\ op = "set"
    /\ tx_frame.address = 255
    /\ Len(tx_log) = 1
    /\ rx_log = <<>>
    /\ result.kind = "none"

\* C3: every send of a transaction carries the connection's sequence number,
\* which the retries leave alone, and every send of the transaction before it
\* carried that number less 1: the counter moved by exactly 1, once, before
\* the first send of the transaction.
C3_SequenceNumberPerTransaction ==
    /\ \A i \in 1..Len(tx_seqs) : tx_seqs[i] = sequence_number
    /\ InCall => \A i \in 1..Len(prev_seqs) : prev_seqs[i] = sequence_number - 1
    /\ InCall /\ pc # "send" => tx_seqs # <<>>

C3_Witness ==
    /\ transactions = 2
    /\ Len(tx_seqs) = 3
    /\ Len(prev_seqs) = 2
    /\ tx_seqs[3] = prev_seqs[1] + 1

\* C4: the sequence counter is a u16 and the frames on the wire have a
\* sequence field of exactly 4 hex characters (1 + 2 + 4 + payload + 4).
C4_SequenceNumberIsU16 ==
    /\ sequence_number \in 0..65535
    /\ \A i \in 1..Len(tx_log) : Len(tx_log[i]) = 11 + Len(tx_frame.payload)

\* C5: a received frame (ACK or DATA) returned to the caller of a query or
\* set to an address other than 255 has the sequence number of the request.
C5_ReturnedFrameHasRequestSequence ==
    (pc = "done" /\ tx_frame.address # 255 /\ result.kind = "none"
       /\ result.frame.receive_type \in {"ACK", "DATA"})
    => result.frame.sequence_number = tx_frame.sequence_number

\* C6: a set that received an ACK whose CRC differs from last_crc does not
\* return normally on that answer: the attempt counts as a timeout, so a set
\* that ended on such an answer ended with GeneralException.
C6_BadAckIsNotAcknowledged ==
    (pc = "done" /\ op = "set" /\ rx_log # <<>> /\ Last(rx_log) = "ack_bad_crc")
    => result.kind = "GeneralException"

\* C7: an 11 character line is decoded without an exception; the frame is an
\* ACK, with the address and the sequence number of the line, exactly when
\* the CRC field of the line is the CRC field of the last stream sent, and
\* is the untouched empty packet otherwise.
C7_AckOnlyWithCachedCrc ==
    (pc = "done" /\ rx_log # <<>> /\ Last(rx_log) \in LineKinds
       /\ Len(DeviceLine(Last(rx_log), tx_frame, last_crc)) = 11)
    => LET line == DeviceLine(Last(rx_log), tx_frame, last_crc)
       IN  /\ result.message = ""
           /\ rx_frame.receive_type \in {"ACK", "EMPTY"}
           /\ rx_frame.receive_type = "ACK" <=> CrcField(line) = CrcField(Last(tx_log))
           /\ rx_frame.receive_type = "ACK"
              => /\ FormatX(rx_frame.address, 2) = SubSeq(line, 2, 3)
                 /\ FormatX(rx_frame.sequence_number, 4) = SubSeq(line, 4, 7)
           /\ rx_frame.receive_type = "EMPTY"
              => rx_frame = MeComPacket("", PACKET_DEFAULT_ADDRESS)

C7_Witness ==
    /\ pc = "done"
    /\ rx_log # <<>>
    /\ Last(rx_log) = "ack_bad_crc"
    /\ rx_frame.receive_type = "EMPTY"
    /\ result.message = ""

C7_WitnessAck ==
    /\ pc = "done"
    /\ rx_log # <<>>
    /\ Last(rx_log) = "ack"
    /\ rx_frame.receive_type = "ACK"
    /\ rx_frame.address = 2

\* C8: while a call runs is_ready is what it was when the call was made; when
\* the call has ended it is false if the call raised GeneralException and is
\* unchanged if the call returned (a response or a broadcast) or raised
\* another exception.
C8_IsReadyClearedOnGeneralException ==
    /\ pc \in {"send", "receive"} => is_ready = ready_at_call
    /\ pc = "done" => is_ready = (IF result.kind = "GeneralException"
                                  THEN FALSE ELSE ready_at_call)

C8_Witness ==
    /\ pc = "done"
    /\ ready_at_call
    /\ result.kind = "GeneralException"
    /\ ~is_ready

C8_WitnessKept ==
    /\ pc = "done"
    /\ ready_at_call
    /\ result.kind = "none"
    /\ is_ready

\* C9: a call whose first answer is a server error (payload "+...") raises
\* ServerException after one send and leaves is_ready alone.
C9_ServerErrorRaised ==
    (pc = "done" /\ rx_log = <<"server_error">>)
    => /\ result.kind = "ServerException"
       /\ Len(tx_log) = 1
       /\ is_ready = ready_at_call

\* C10: a call made by a thread other than the creator while is_ready is
\* false raises NotConnectedException and sends nothing.
C10_NotConnectedGuard ==
    (InCall /\ thread = "other" /\ ~ready_at_call)
    => /\ result.kind = "NotConnectedException"
       /\ tx_seqs = <<>>
       /\ tx_log = <<>>

\* C11: a transport error other than a timeout, raised by the send or by the
\* receive of an attempt, ends the call with GeneralException on that
\* attempt: nothing is sent or received after it, and when it is the first
\* attempt exactly one send was made.
C11_TransportErrorAbortsAtOnce ==
    InCall
    => /\ \A i \in 1..Len(rx_log) :
            rx_log[i] = "error"
            => /\ i = Len(rx_log)
               /\ pc = "done"
               /\ result.kind = "GeneralException"
               /\ Len(tx_seqs) = i
               /\ Len(tx_log) = i
       /\ send_failed
          => /\ pc = "done"
             /\ result.kind = "GeneralException"
             /\ Len(tx_seqs) = Len(rx_log) + 1
             /\ Len(tx_log) = Len(rx_log)

C11_Witness ==
    /\ pc = "done"
    /\ rx_log = <<"error">>
    /\ Len(tx_log) = 1
    /\ trials_left = 2
    /\ result.kind = "GeneralException"

C11_WitnessSend ==
    /\ pc = "done"
    /\ send_failed
    /\ rx_log = <<"timeout">>
    /\ Len(tx_seqs) = 2
    /\ result.kind = "GeneralException"

C13_DecodeRecoversSentFrame ==
    codec_pc = "decoded"
    => /\ codec_rx.exc = "none"
       /\ codec_rx.frame.address = codec_tx_frame.address
       /\ codec_rx.frame.sequence_number = codec_tx_frame.sequence_number
       /\ codec_rx.frame.payload = codec_tx_frame.payload

C13_Witness ==
    /\ codec_pc = "decoded"
    /\ codec_tx_frame.address = 255
    /\ codec_tx_frame.sequence_number = 65535
    /\ codec_tx_frame.payload = <<"?", "A">>
    /\ codec_rx.frame.receive_type = "DATA"

C13_WitnessEmptyPayload ==
    /\ codec_pc = "decoded"
    /\ codec_tx_frame.address = 0
    /\ codec_tx_frame.sequence_number = 32768
    /\ codec_tx_frame.payload = <<>>
    /\ Len(codec_tx_stream) = ACK_LENGTH
    /\ codec_rx.frame.receive_type = "ACK"

\* C14: for every value of each unsigned width, reading back the field
\* add_uintN("", value) wrote raises nothing and returns the value.
C14_ReadReturnsAddedValue ==
    (conv_pc = "read" /\ conv_before = <<>>)
    => /\ conv_read.exc = "none"
       /\ conv_read.value = conv_value

\* C15: add_uintN appends exactly N / 4 characters, all of them hex digits
\* 0-9A-F, that are the value's digits, most significant first, with zeros
\* on the left.
C15_FixedWidthZeroPaddedHex ==
    conv_pc \in {"added", "read"}
    => /\ Slice(conv_stream, 0, Len(conv_before)) = conv_before
       /\ Len(Appended) = conv_width \div 4
       /\ \A i \in 1..Len(Appended) : Appended[i] \in HexCharSet
       /\ Appended = ZeroFill(HexDigits(conv_value), conv_width \div 4)

(***************************************************************************)
(* Properties of download_lookup_table.                                    *)
(***************************************************************************)
\* _parse_lut_into_list has returned a list
Parsed ==
    \/ lut_pc \in {"page", "analyze"}
    \/ lut_pc = "done" /\ (lut_analyze_sent \/ lut_pages_sent # {})

\* the instruction column of a line
InstructionOf(line) == Split(line, ";")[1]

\* the line is an EOF row
IsEofRow(line) == InstructionOf(line) = "EOF"

\* the places in the file of its EOF rows
EofRows(lines) == {i \in 2..Len(lines) : IsEofRow(lines[i])}

\* the number of rows after the first line and before the first EOF row
RowsBeforeEof(lines) ==
    IF EofRows(lines) = {} THEN Len(lines) - 1
    ELSE (CHOOSE i \in EofRows(lines) : \A j \in EofRows(lines) : i <= j) - 2

C16_WitnessRowAfterEof ==
    /\ lut_pc = "page"
    /\ Len(lut_lines) = 3
    /\ IsEofRow(lut_lines[2])
    /\ lut_lines[3] = "TABLE_INFO;END;0\n"
    /\ Len(lut_records) = 2
    /\ lut_records[2].field1 = LUT_TABLE_INFO_F1_END

RECURSIVE CrcOver(_, _)
\* the table CRC over the first n records of a list
CrcOver(records, n) ==
    IF n = 0 THEN CRC32_START
    ELSE IF records[n].instruction = LUT_EOF_INSTR THEN CrcOver(records, n - 1)
    ELSE _calc_crc(CrcOver(records, n - 1), records[n])

\* C17: for every file that is accepted, the records that are paginated and
\* uploaded end with an EOF record, it is the only one, and its field 2 is
\* the table CRC over the records before it.
C17_UploadEndsWithOneEofRecord ==
    Parsed
    => /\ lut_records # <<>>
       /\ lut_records[Len(lut_records)].instruction = LUT_EOF_INSTR
       /\ \A i \in 1..(Len(lut_records) - 1) : lut_records[i].instruction # LUT_EOF_INSTR
       /\ lut_records[Len(lut_records)].field2 = CrcOver(lut_records, Len(lut_records) - 1)

\* the row makes the try block of _enumerate_lut raise LutException: its
\* instruction is not one of the enumeration, or its field 1 is not one of
\* the names of its instruction
IsInvalidRow(line) ==
    /\ Len(Split(line, ";")) >= 3
    /\ EnumerateTry(Split(line, ";")[1], Split(line, ";")[2], Split(line, ";")[3]).exc
         = "LutException"

\* the file has the title and all its rows have three columns
WellFormedRows(lines) ==
    /\ lines # <<>>
    /\ Contains(lines[1], LUT_TITLE)
    /\ \A i \in 2..Len(lines) : Len(Split(lines[i], ";")) >= 3

\* C18: a file with a row whose instruction is unknown, or whose field 1 is
\* not valid for its instruction, makes parsing fail with LutException, and
\* no record is made of that row.
C18_InvalidRowRaises ==
    (/\ lut_pc # "start"
     /\ WellFormedRows(lut_lines)
     /\ \E i \in 2..Len(lut_lines) : IsInvalidRow(lut_lines[i]))
    => /\ lut_exc = "LutException"
       /\ Len(lut_records) < Len(lut_lines) - 1

\* the first line is the title, with or without its line end
IsTitleLine(line) == line \in {LUT_TITLE, LUT_TITLE \o "\n"}

\* C19: with a wrong first line or an invalid row in the file,
\* download_lookup_table fails before anything is sent: no program page
\* and no analyze query.
C19_NothingSentForInvalidFile ==
    (/\ lut_pc # "start"
     /\ lut_lines # <<>>
     /\ \/ ~IsTitleLine(lut_lines[1])
        \/ \E i \in 2..Len(lut_lines) : IsInvalidRow(lut_lines[i]))
    => /\ lut_pc = "done"
       /\ lut_exc # "none"
       /\ lut_pages_sent = {}
       /\ ~lut_analyze_sent

\* C20: parsing succeeds only if the first line is the title; a file
\* without lines, and a file whose first line is not the title, the title
\* within other characters included, fail with LutException.
C20_TitleMustEqualHeader ==
    (/\ lut_pc # "start"
     /\ lut_lines = <<>> \/ ~IsTitleLine(lut_lines[1]))
    => /\ lut_pc = "done"
       /\ lut_exc = "LutException"
       /\ lut_pages_sent = {}
       /\ ~lut_analyze_sent

(***************************************************************************)
(* Properties of _split_list.                                              *)
(***************************************************************************)
RECURSIVE Concatenation(_)
\* the lists of a list of lists, one after the other
Concatenation(lists) ==
    IF lists = <<>> THEN <<>>
    ELSE Concatenation(SubSeq(lists, 1, Len(lists) - 1)) \o lists[Len(lists)]

\* C21: for every list and every page size n >= 1 the pages, one after the
\* other, are the list; every page but the last has n records, the last has
\* 1 to n; the empty list gives no page; 65 records with n = 32 give pages
\* of 32, 32 and 1 records.
C21_PagesPartitionTheList ==
    split_pc = "split"
    => /\ Concatenation(split_pages) = split_list
       /\ \A k \in 1..(Len(split_pages) - 1) : Len(split_pages[k]) = split_size
       /\ split_pages # <<>>
          => /\ Len(split_pages[Len(split_pages)]) >= 1
             /\ Len(split_pages[Len(split_pages)]) <= split_size
       /\ split_list = <<>> => split_pages = <<>>
       /\ (Len(split_list) = 65 /\ split_size = 32)
          => [k \in 1..Len(split_pages) |-> Len(split_pages[k])] = <<32, 32, 1>>

C21_Witness ==
    /\ split_pc = "split"
    /\ Len(split_list) = 65
    /\ split_size = 32
    /\ Len(split_pages) = 3
    /\ Len(split_pages[3]) = 1
    /\ split_pages[3][1].field1 = 65

C21_WitnessEmpty ==
    /\ split_pc = "split"
    /\ split_list = <<>>
    /\ split_size = 32
    /\ split_pages = <<>>

(***************************************************************************)
(* Properties of the pages and of the two busy loops.                      *)
(***************************************************************************)
\* the characters of a payload from place i, n of them
Field(payload, i, n) == SubSeq(payload, i, i + n - 1)

\* C22: every program page given to set() has a payload of exactly 524
\* characters: "?LT", the nibble 1, the page offset in 8 hex characters, 16
\* hex characters for each of the 1..32 records of the page, in page order,
\* and after them nothing but "0"; every later set() of the page carries the
\* same payload.
C22_PagePayloadIs524Characters ==
    \A k \in 1..Len(lut_sends) :
        LET payload == lut_sends[k].payload
            page == PageRecords(lut_records, lut_lists[k])
        IN  /\ Len(page) \in 1..MAX_LIST_SIZE
            /\ Len(payload) = 524
            /\ Field(payload, 1, 4) = <<"?", "L", "T", "1">>
            /\ \A i \in 5..524 : payload[i] \in HexCharSet
            /\ HexValue(Field(payload, 5, 8)) = lut_sends[k].offset
            /\ \A i \in 1..Len(page) : \A j \in 1..8 :
                  HexValue(Field(payload, 13 + 16 * (i - 1) + 2 * (j - 1), 2))
                    = get_bytes(page[i])[j]
            /\ \A i \in (13 + 16 * Len(page))..524 : payload[i] = "0"
            /\ lut_sends[k].same

C22_Witness ==
    /\ lut_lines = LongFile
    /\ Len(lut_sends) = 2
    /\ Len(lut_lists[1]) = 32
    /\ Len(lut_lists[2]) = 1
    /\ lut_page_sends = 3
    /\ Field(lut_sends[2].payload, 1, 14) = <<"?", "L", "T", "1", "0", "0", "0", "0",
                                             "0", "0", "0", "1", "F", "E">>
    /\ lut_sends[2].payload[524] = "0"

\* the upload failed with Device Busy while sending a page
PageBusy ==
    /\ lut_exc = "LutException"
    /\ lut_message = "Device Busy while sending Lookup Table"

\* C23: a page whose every answer is a status other than 2 is sent again,
\* with the same offset and payload, until it was sent 50 times; the 50th
\* such answer makes the upload fail with Device Busy, never an earlier one,
\* and after the failure no later page and no analyze query is sent.
C23_BusyPageFailsAfter50Sends ==
    /\ lut_page_sends <= 50
    /\ lut_pc = "page" => /\ lut_page_sends = lut_timeout
                          /\ lut_page_sends < 50
    /\ (lut_pc = "done" /\ lut_sends # <<>> /\ lut_timeout = 50
          /\ ~lut_sends[Len(lut_sends)].accepted)
       => PageBusy
    /\ PageBusy
       => /\ lut_pc = "done"
          /\ lut_page_sends = 50
          /\ Len(lut_sends) = lut_page
          /\ lut_sends[lut_page].same
          /\ lut_sends[lut_page].offset = lut_page - 1
          /\ ~lut_sends[lut_page].accepted
          /\ lut_pages_sent = 0..(lut_page - 1)
          /\ ~lut_analyze_sent
          /\ lut_analyze_sends = 0

C23_Witness ==
    /\ lut_lines = LongFile
    /\ PageBusy
    /\ lut_page = 1
    /\ Len(lut_lists) = 2
    /\ lut_page_sends = 50
    /\ lut_pages_sent = {0}

C23_WitnessSecondPage ==
    /\ lut_lines = LongFile
    /\ PageBusy
    /\ lut_page = 2
    /\ lut_sends[1].accepted
    /\ lut_page_sends = 50

\* C24: the program pages carry the offsets 0, 1, 2, ... in that order, a
\* page is first sent only when every page before it was answered with
\* status 2, and the analyze query ("?LT" and the nibble 2) is first sent
\* only when the last page was.
C24_PagesInOrderThenAnalyze ==
    /\ \A k \in 1..Len(lut_sends) :
          /\ lut_sends[k].offset = k - 1
          /\ HexValue(Field(lut_sends[k].payload, 5, 8)) = k - 1
          /\ Field(lut_sends[k].payload, 1, 4) = <<"?", "L", "T", "1">>
          /\ k < Len(lut_sends) => lut_sends[k].accepted
    /\ Len(lut_sends) <= Len(lut_lists)
    /\ lut_analyze_sent <=> lut_analyze_sends > 0
    /\ lut_analyze_sent
       => /\ Len(lut_sends) = Len(lut_lists)
          /\ \A k \in 1..Len(lut_sends) : lut_sends[k].accepted
          /\ lut_payload = <<"?", "L", "T", "2">>

C24_Witness ==
    /\ lut_lines = LongFile
    /\ lut_analyze_sent
    /\ Len(lut_sends) = 2
    /\ lut_sends[2].offset = 1
    /\ lut_sends[2].accepted
    /\ lut_pc = "done"
    /\ lut_exc = "none"

(***************************************************************************)
(* Properties of the table CRC.                                            *)
(***************************************************************************)
\* a & 0xFFFFFFFF
Truncate32(a) == Normalize(SubSeq(a, 1, Min(Len(a), 4)))

RECURSIVE ReferenceShift(_, _)
\* n steps of the 32 bit register: the left shift drops the bit shifted out
ReferenceShift(crc, n) ==
    IF n = 0 \/ crc = <<>> THEN crc       \* 0 stays 0 however often it is shifted
    ELSE ReferenceShift(IF Digit(crc, 3) >= 128
                        THEN NumXor(Truncate32(NumShl1(crc)), CRC32_POLYNOMIAL)
                        ELSE Truncate32(NumShl1(crc)),
                        n - 1)

\* the reference CRC of one word
ReferenceCrc32(crc, data) == ReferenceShift(NumXor(crc, data), 32)

RECURSIVE ReferenceOver(_, _)
\* the reference CRC over the first n records of a list: for each record
\* that is not an EOF record the instruction and field 1 word, then the
\* field 2 word
ReferenceOver(records, n) ==
    IF n = 0 THEN CRC32_START
    ELSE IF records[n].instruction = LUT_EOF_INSTR THEN ReferenceOver(records, n - 1)
    ELSE ReferenceCrc32(ReferenceCrc32(ReferenceOver(records, n - 1),
                                       records[n].instruction_and_field_1),
                        records[n].field2)

\* the number is in 0..0xFFFFFFFF
IsU32(a) == Len(a) <= 4

\* C25: the CRC after each record that is not an EOF record, and the value
\* stored in field 2 of an EOF record, are in 0..0xFFFFFFFF and are the
\* reference CRC of the records before.
C25_TableCrcIs32Bit ==
    Parsed
    => \A i \in 1..Len(lut_records) :
          IF lut_records[i].instruction = LUT_EOF_INSTR
          THEN /\ IsU32(lut_records[i].field2)
               /\ IsU32(lut_records[i].field2_int)
               /\ lut_records[i].field2 = ReferenceOver(lut_records, i - 1)
          ELSE /\ IsU32(CrcOver(lut_records, i))
               /\ CrcOver(lut_records, i) = ReferenceOver(lut_records, i)

(***************************************************************************)
(* Properties of LutRecord.                                                *)
(***************************************************************************)
\* C26: whatever was set through the instruction, field1, field2_int and
\* field2_float setters, get_bytes returns 8 bytes, each in 0..255: the
\* instruction, the three low bytes of field 1 least significant first, and
\* the four bytes of field 2 modulo 2^32 least significant first.
C26_GetBytesIsTheRecordInEightBytes ==
    rec_pc = "read"
    => /\ Len(rec_bytes) = 8
       /\ \A j \in 1..8 : rec_bytes[j] \in 0..255
       /\ rec_bytes[1] = rec_instruction
       /\ rec_bytes[2] = rec_field1 % 256
       /\ rec_bytes[3] = (rec_field1 \div 256) % 256
       /\ rec_bytes[4] = (rec_field1 \div 65536) % 256
       /\ \A j \in 1..4 : rec_bytes[4 + j] = Digit(rec_field2, j - 1)

C26_Witness ==
    /\ rec_pc = "read"
    /\ rec_instruction = LUT_SET_FLOAT_INSTR
    /\ rec_field1 = 66051
    /\ rec_field2 = <<1, 2, 3, 4, 5>>
    /\ rec_bytes = <<6, 3, 2, 1, 1, 2, 3, 4>>

C26_WitnessFloat ==
    /\ rec_pc = "read"
    /\ rec_instruction = 255
    /\ rec_field1 = 16777215
    /\ rec_bytes = <<255, 255, 255, 255, 0, 0, 200, 65>>

(***************************************************************************)
(* Properties of the retries of local_query and local_set.                 *)
(***************************************************************************)
\* the answers of a device that follows the protocol: the acknowledge of the
\* stream sent and a data frame with a good checksum
ResponseKinds == {"ack", "data"}

\* the first k receives of the call timed out
TimedOut(k) ==
    /\ Len(rx_log) >= k
    /\ \A i \in 1..k : rx_log[i] = "timeout"

\* C28: a call whose first k receives (k = 1 or 2) timed out goes on to send
\* number k + 1, and when that attempt receives the device's answer the call
\* returns the decoded answer after exactly k + 1 sends, without an exception
\* and with is_ready as it was; no call sends more than 3 times, a call that
\* has ended sent at least once, and the receives never outnumber the sends.
C28_ResponseAfterTimeoutsIsReturned ==
    InCall
    => /\ Len(tx_seqs) <= 3
       /\ pc \in {"receive", "done"} => Len(tx_seqs) >= 1
       /\ Len(tx_log) <= Len(tx_seqs)
       /\ Len(rx_log) <= Len(tx_log)
       /\ \A k \in 1..2 :
             TimedOut(k)
             => /\ (Len(rx_log) = k /\ ~send_failed) => pc # "done"
                /\ (Len(rx_log) = k + 1 /\ rx_log[k + 1] \in ResponseKinds)
                   => /\ pc = "done"
                      /\ result.kind = "none"
                      /\ result.frame = rx_frame
                      /\ result.frame.receive_type
                            = (IF rx_log[k + 1] = "ack" THEN "ACK" ELSE "DATA")
                      /\ rx_log[k + 1] = "data" => result.frame.payload = DataPayload
                      /\ Len(tx_log) = k + 1
                      /\ Len(tx_seqs) = k + 1
                      /\ is_ready = ready_at_call

C28_Witness ==
    /\ pc = "done"
    /\ op = "query"
    /\ rx_log = <<"timeout", "timeout", "data">>
    /\ Len(tx_log) = 3
    /\ result.kind = "none"
    /\ ready_at_call
    /\ is_ready

C28_WitnessOneTimeout ==
    /\ pc = "done"
    /\ op = "set"
    /\ rx_log = <<"timeout", "ack">>
    /\ Len(tx_log) = 2
    /\ result.frame.receive_type = "ACK"

\* the three diagnoses after the loop of local_query/local_set
MismatchMessages == {"Wrong Type of package received",
                     "Wrong Sequence Number received",
                     "Wrong Address received"}

\* the call used its 3 attempts and the last of them gave no frame
Exhausted ==
    /\ pc = "done"
    /\ trials_left = 0
    /\ Len(tx_log) = TRIALS
    /\ Len(rx_log) = TRIALS
    /\ Last(rx_log) = "timeout"

\* C29: a call that used its 3 attempts without a frame to return raises a
\* GeneralException whose message names the mismatch of the last received
\* frame: its type, its sequence number or its address.
C29_ExhaustionNamesTheMismatch ==
    Exhausted
    => /\ result.kind = "GeneralException"
       /\ result.message \in MismatchMessages

\* the step is a call of set_is_ready
SetIsReadyStep ==
    /\ pc \in {"idle", "done"}
    /\ pc' = "idle"

\* the step ends a query or a set with GeneralException
GeneralExceptionStep ==
    /\ pc # "done"
    /\ pc' = "done"
    /\ result'.kind = "GeneralException"

\* C35: is_ready is false after construction; a step changes it only if it
\* is a set_is_ready call, which gives it any value, or the end of a query
\* or set with GeneralException, which makes it false: so it is true only
\* if the last of these events was set_is_ready(true), and no query or set
\* makes it true.
C35_IsReadyOnlyBySetIsReady ==
    /\ ~is_ready
    /\ [][/\ GeneralExceptionStep => ~is_ready'
          /\ ~(SetIsReadyStep \/ GeneralExceptionStep) => is_ready' = is_ready]_vars

C35_Witness ==
    /\ transactions = 2
    /\ pc = "done"
    /\ result.kind = "GeneralException"
    /\ Len(prev_seqs) = 1
    /\ ready_at_call
    /\ ~is_ready

C35_WitnessReady ==
    /\ transactions = 2
    /\ pc = "done"
    /\ result.kind = "none"
    /\ Len(prev_seqs) = 3
    /\ ready_at_call
    /\ is_ready

(***************************************************************************)
(* Properties of the busy loops of src/mecom_tec/lookup_table/lut_cmd.py.  *)
(***************************************************************************)
\* C27: no page and no analyze command is sent more than 50 times, and a
\* loop whose timeout has reached 50 has ended download_lookup_table with
\* the Device Busy LutException: it makes no further pass.
C27_BusyLoopsEndAt50 ==
    /\ draft_page_sends <= 50
    /\ draft_analyze_sends <= 50
    /\ draft_timeout >= DRAFT_TIMEOUT_LIMIT
       => /\ draft_pc = "done"
          /\ draft_exc = "LutException"

(***************************************************************************)
(* Properties of MeComPhySerialPort.get_data_or_timeout.                   *)
(***************************************************************************)
\* C30: a call of get_data_or_timeout in which a read returned fewer bytes
\* than asked before the read timeout ends with MeComPhyTimeoutException.
C30_ShortReadIsTimeout ==
    (phy_pc = "done" /\ phy_short)
    => phy_exc = "MeComPhyTimeoutException"

(***************************************************************************)
(* Properties of add_int32 / read_int32 and add_uint4 / read_uint4.        *)
(***************************************************************************)
\* C31: for every signed 32 bit value, negative ones included, add_int32
\* writes exactly 8 hex characters 0-9A-F and read_int32 of that field raises
\* nothing and returns the value.
C31_Int32RoundTrip ==
    (fld_kind = "int32" /\ fld_pc \in {"added", "read"})
    => /\ Len(FieldAppended) = 8
       /\ \A i \in 1..Len(FieldAppended) : FieldAppended[i] \in HexCharSet
       /\ fld_pc = "read" => /\ fld_read.exc = "none"
                             /\ fld_read.value = fld_value

\* C32: for every nibble 0..15, read_uint4 of the one character add_uint4
\* wrote raises nothing and returns the nibble.
C32_Uint4RoundTrip ==
    (fld_kind = "uint4" /\ fld_pc = "read")
    => /\ Len(FieldAppended) = 1
       /\ fld_read.exc = "none"
       /\ fld_read.value = fld_value

(***************************************************************************)
(* Properties of the status wait of MeerstetterTEC.download_lookup_table.  *)
(***************************************************************************)
\* the loop ended with the status timeout
StatusTimeout ==
    /\ poll_exc = "LutException"
    /\ poll_message = "Timeout while trying to get Lookup Table status!"

\* the status is one the loop waits on
Waiting(status) == status \in {LUT_STATUS_NO_INIT, LUT_STATUS_ANALYZING}

\* C33: the wait loop polls only after the upload returned; while it runs
\* every poll so far reported NO_INIT or ANALYZING and fewer than 50 were
\* made; the first poll with another status ends the loop, which polls no
\* more; the 50th poll in a row that reports NO_INIT or ANALYZING raises
\* LutException, and no earlier one does: the loop never polls more than 50
\* times.
C33_StatusWaitEndsWithin50Polls ==
    /\ poll_polls <= 50
    /\ poll_pc = "upload" => poll_polls = 0
    /\ poll_pc = "wait"
       => /\ poll_polls = poll_timeout
          /\ poll_polls < 50
          /\ poll_polls > 0 => Waiting(poll_status)
    /\ poll_pc = "last"
       => /\ ~Waiting(poll_status)
          /\ poll_status # NONE
          /\ poll_polls = poll_timeout + 1
    /\ (poll_pc = "done" /\ poll_exc = "none")
       => /\ ~Waiting(poll_status)
          /\ poll_polls = poll_timeout + 1
    /\ StatusTimeout
       <=> /\ poll_pc = "done"
           /\ poll_timeout = 50
    /\ StatusTimeout
       => /\ poll_polls = 50
          /\ Waiting(poll_status)

C33_Witness ==
    /\ poll_pc = "done"
    /\ StatusTimeout
    /\ poll_polls = 50

C33_WitnessReady ==
    /\ poll_pc = "done"
    /\ poll_exc = "none"
    /\ poll_polls = 50
    /\ poll_timeout = 49
    /\ poll_status = 3

(***************************************************************************)
(* Properties of the LutRecord setters.                                    *)
(***************************************************************************)
\* the number whose bytes, least significant first, are b0, b1, b2, b3
LittleEndian(b0, b1, b2, b3) == Normalize(<<b0, b1, b2, b3>>)

\* C34: after any setter calls the first word of get_int_array is
\* instruction | field1b0 << 8 | field1b1 << 16 | field1b2 << 24 of the bytes
\* get_bytes returns, and the second word is the little-endian value of the
\* four field 2 bytes get_bytes returns.
C34_IntArrayAgreesWithBytes ==
    LET bytes_ == get_bytes(rec_record)
        words == get_int_array(rec_record)
    IN  rec_pc \in {"set", "read"}
        => /\ words[1] = InstructionAndField1(bytes_[1], bytes_[2], bytes_[3], bytes_[4])
           /\ words[2] = LittleEndian(bytes_[5], bytes_[6], bytes_[7], bytes_[8])

(***************************************************************************)
(* Properties of query/set called by two threads at once.                  *)
(***************************************************************************)
\* C36: the sends of the two transactions carry different sequence numbers,
\* and every send of a transaction carries the number its first send
\* carried.
C36_ConcurrentTransactionsKeepTheirNumbers ==
    /\ \A t \in ThreadIds : \A i \in 1..Len(thr_sent[t]) :
          thr_sent[t][i] = thr_sent[t][1]
    /\ \A i \in 1..Len(thr_sent[1]) : \A j \in 1..Len(thr_sent[2]) :
          thr_sent[1][i] # thr_sent[2][j]

(***************************************************************************)
(* Properties of _enumerate_lut on LIN_RAMP_TIME rows.                     *)
(***************************************************************************)
\* C37: the record made of a LIN_RAMP_TIME row whose Field 1 is an integer
\* in 10..16777216 has that integer as its field1 (and the instruction 3).
C37_RampTimeIsCarriedIntoTheRecord ==
    (enum_pc = "done" /\ 10 <= IntOf(enum_field1) /\ IntOf(enum_field1) <= 16777216)
    => /\ enum_result.exc = "none"
       /\ enum_result.record.instruction = LUT_LIN_RAMP_TIME_INSTR
       /\ enum_result.record.field1 = IntOf(enum_field1)

====
